---- MODULE Spec2Model ----
(***************************************************************************)
(* The USMART gateway main loop (src/main/mainloop.py, operating mode 2):  *)
(* the supervisor loop of run_mainloop as a program-counter machine, the   *)
(* two interrupt handlers (rtc_callback, nm3_callback), the WiFi station   *)
(* interface, the three outbound deques and the HTTP shipper.              *)
(*                                                                         *)
(* Wall time (utime.time()) is the variable now, in whole seconds.  Time   *)
(* passes only where the code blocks: the sleep_ms() yield at the top of   *)
(* the loop, the wait loops (NM3 settle, pre-sleep spin, lightsleep), the  *)
(* acoustic frame and the HTTP requests.  The RTC wakeup interrupt runs    *)
(* at every RtcTickS-th second that passes; the NM3 interrupt runs at any  *)
(* point between two steps of the supervisor.                              *)
(***************************************************************************)
EXTENDS Integers, Sequences, FiniteSets, TLC

\* ---------------------------------------------------------------- constants
\* _wifi_transition_* (mainloop.py 59-61)
_wifi_transition_static == 0
_wifi_transition_connecting == 1
_wifi_transition_disconnecting == 2

MessagesMaxLen == 50        \* deque((), 50)
StatusesMaxLen == 20        \* deque((), 20)
TopologiesMaxLen == 40      \* deque((), 40)
SeqLimit == 65536           \* seqNo wraps to 0 here
RtcTickS == 2               \* rtc.wakeup(2 * 1000, rtc_callback)
AlarmPeriodS == 3600        \* rtc_set_alarm_period_s(60 * 60)
AlarmMaxS == 7200           \* rtc_set_next_alarm_time_s accepts 1..7200
Nm3WindowS == 30            \* poll for 30 s after the last NM3 synch
Nm3SettleS == 7             \* wait for the NM3 bootloader
WifiCooldownS == 2          \* cooldown after a disconnect
WifiTimeoutS == 30          \* give up connecting after 30 s
WifiRetryLimit == 5         \* wifi_connection_retry_count > 5 allows sleep
HttpAttempts == 4           \* retry_count < 4
FrameLeadS == 60            \* wake/stay awake 60 s before the next frame
SpinS == 5                  \* pre-sleep spin after the WiFi disconnect
WdtTimeoutS == 30           \* machine.WDT(timeout=30000)
StartupS == 20              \* the two sleep_ms(10000) of the NM3 power cycle
BootWallS == 473385600      \* utime.time() after rtc.init(): 2015-01-01 00:00:00
CalibrationS == 20          \* sensor.do_calibration(duration=20)
SendS == 1                  \* utime.sleep_ms(1000) after a broadcast
HttpOkMin == 200            \* 200 <= response.status_code
HttpOkEnd == 300            \* response.status_code < 300

\* ------------------------------------------------------------------- bounds
MaxTime == 14               \* seconds of wall time modelled after the loop starts
MaxTimeNoAp == 60            \* the same, with no access point in range
MaxNm3Syncs == 1            \* NM3 frame-synchronisation edges modelled
MaxPackets == 1             \* packets one modem poll or one gather returns
MaxHttpS == 8               \* whole seconds a slow HTTP attempt takes
MaxTimeSlow == 40           \* seconds modelled with a slow backend
MaxTimeBusy == 216          \* seconds modelled with a frame due in every iteration
ApBackS == 70               \* the second at which a lost access point is back
MaxNetS == 1                \* whole seconds one discovery or gather takes
MaxModules == 1             \* entries of _env_variables["installedModules"]
MaxTimeReconf == 76         \* seconds modelled with a backend that changes the node list
MaxTimeCommands == 30       \* seconds modelled with command packets arriving
MaxTimeAlarm == 3600        \* seconds modelled up to the first RTC alarm and past it
MaxTimeRtc == 8             \* seconds modelled of the RTC alarm scheduler on its own
MaxTimeGather == 14         \* seconds modelled with discoveries that may fail
MaxTimeWindow == 45         \* seconds modelled around the window after an NM3 edge
MaxTimeSleepy == 24         \* seconds modelled with the NM3 powered down for sleep
MaxPeriodS == 3             \* longest alarm period the scheduler is given
MaxAheadS == 3              \* furthest ahead the next alarm is set
MaxTimeResets == 16         \* seconds modelled with reset commands arriving
MaxTimeStamp == 10          \* seconds modelled of the relay step line by line
MaxTimeNm3Off == 230        \* seconds modelled with the access point lost after the first frame
MaxTimeLate == 3800         \* seconds modelled up to the frame after a sleep of an hour
MaxTimeRetry == 20          \* seconds modelled with a rediscovery at every other frame

FloodPackets == 32        \* packets one gather returns from a flooding network
MaxTimeFlood == 2070          \* seconds modelled with a flooding network

VARIABLES
    pc,                              \* position of the supervisor in the loop body
    now,                             \* utime.time()
    _rtc_callback_flag, _rtc_callback_seconds,
    _rtc_alarm_period_s, _rtc_next_alarm_time_s,
    _nm3_callback_flag, _nm3_callback_seconds,
    _nm3_callback_millis, _nm3_callback_micros,
    _wifi_current_transition, wifi_connection_retry_count,
    wifi_connecting_start_time, wifi_disconnecting_start_time,
    json_to_send_messages, json_to_send_statuses, json_to_send_network_topologies,
    status_seq, message_seq, network_topology_seq,
    network_nm3_gateway_stay_awake, network_node_addresses,
    network_cycle_counter, network_cycle_limit,
    network_partials_counter, network_partials_per_full_discovery,
    network_frame_interval_s, network_next_frame_time_s,
    network_is_configured, network_do_full_configuration,
    network_do_partial_configuration, network_config_is_stale,
    nm3_startup_time,                \* utime.time() when the RTC branch switched the NM3 on
    time_till_next_frame,            \* the bound last handed to gather_sensor_data, in ms
    timestamp,                       \* the HW timestamps last copied onto a message_packet
    http,                            \* the shipper's locals: retry_count, success_flag, item
    wlan,                            \* the station interface: "off" or "active"
    env,                             \* the surroundings of this run (see InitWith)
    uart_packets,                    \* packets waiting in the modem driver's buffer
    power,                           \* EN_3V3, the RS-232 Tx driver, the NM3 rail
    wdt_fed,                         \* utime.time() of the last wdt.feed()
    rtc_asserts,                     \* history: times rtc_callback set the flag
    wifi_branch,                     \* history: the branch the last WiFi step took
    wifi_failures,                   \* history: attempts failed since the last sleep or connection
    nm3_syncs,                       \* history: times nm3_callback ran
    nm3_firings,                     \* history: utime.time() at each run of nm3_callback
    posted,                          \* history: seqNos handed to each endpoint in this WiFi step
    last_post,                       \* history: the last POST of this WiFi step
    created,                         \* history: items created for each queue since boot
    nodes_changed,                   \* history: a pull changed the node set since the last frame
    effects,                         \* history: command side effects of the last relay step
    partial_run                      \* history: partial rediscoveries since the last full one

isrVars == <<_rtc_callback_flag, _rtc_callback_seconds, _rtc_alarm_period_s,
             _rtc_next_alarm_time_s, rtc_asserts>>
nm3Vars == <<_nm3_callback_flag, _nm3_callback_seconds, _nm3_callback_millis,
             _nm3_callback_micros, nm3_syncs, nm3_firings, uart_packets>>
wifiVars == <<_wifi_current_transition, wifi_connection_retry_count,
              wifi_connecting_start_time, wifi_disconnecting_start_time,
              wifi_branch, wifi_failures>>
queueVars == <<json_to_send_messages, json_to_send_statuses,
               json_to_send_network_topologies>>
seqVars == <<status_seq, message_seq, network_topology_seq>>
cfgVars == <<network_nm3_gateway_stay_awake, network_node_addresses,
             network_cycle_limit, network_partials_per_full_discovery,
             network_frame_interval_s>>
runVars == <<network_cycle_counter, network_partials_counter,
             network_next_frame_time_s, network_is_configured,
             network_do_full_configuration, network_do_partial_configuration>>
localVars == <<nm3_startup_time, time_till_next_frame, timestamp>>
histVars == <<posted, last_post, created, nodes_changed, effects, partial_run>>
vars == <<pc, now, isrVars, nm3Vars, wifiVars, queueVars, seqVars, cfgVars, runVars,
          network_config_is_stale, localVars, http, wlan, env, power,
          wdt_fed, histVars>>

\* ------------------------------------------------------------------ helpers
\* No run of partial rediscoveries is being counted.
NoRun == -1

\* pyb.millis() and pyb.micros() as nm3_callback reads them at its next run:
\* the readings of one run stand for that run, the n-th run reads n.
clock_reading == Len(nm3_firings) + 1

\* The timestamp fields of a message_packet: timestamp, timestamp_millis,
\* timestamp_micros.
hw_timestamp(seconds, millis, micros) ==
    [seconds |-> seconds, millis |-> millis, micros |-> micros]
NoStamp == hw_timestamp(0, 0, 0)

\* The loop starts StartupS seconds after rtc.init() reset the clock.
LoopStart == BootWallS + StartupS

\* A deque without a bound.
deque_append_unbounded(q, x, maxlen) == Append(q, x)

\* ucollections.deque((), maxlen).append(x): a full deque drops its oldest item.
deque_append(q, x, maxlen) ==
    IF Len(q) >= maxlen THEN Append(Tail(q), x) ELSE Append(q, x)

\* A counter that skips every other number.
next_seq_skips(seq) == IF seq + 2 >= SeqLimit THEN 0 ELSE seq + 2

\* seq = seq + 1; if seq >= 65536: seq = 0
next_seq(seq) == IF seq + 1 >= SeqLimit THEN 0 ELSE seq + 1

\* {"...": ..., "seqNo": seq, "retry": 0}; the payload fields are not modelled.
new_item(seq) == [seqNo |-> seq, retry |-> 0]
NoItem == [seqNo |-> -1, retry |-> 0]
\* No POST has been made.
NoPost == [kind |-> "none", seqNo |-> -1, retry |-> 0, attempt |-> 0, status |-> 0]
\* The fields of a /networkconfig/latest/ document that steer the supervisor.
config_doc(stay_awake, cycle_limit, partials_per_full, frame_interval_s, nodes) ==
    [nm3GatewayStayAwake |-> stay_awake, cycleLimit |-> cycle_limit,
     partialsPerFullDiscovery |-> partials_per_full,
     frameIntervalS |-> frame_interval_s, nodeAddresses |-> nodes]
NoDoc == config_doc(TRUE, 0, 0, 0, <<>>)
\* retry_count = 0; success_flag = False; network_config_json = None
NoHttp == [retry_count |-> 0, success_flag |-> FALSE, item |-> NoItem, doc |-> NoDoc]

\* MessagePacket.packet_type and packet_payload of a received packet; the
\* payload is "" when the packet carries none.
PACKETTYPE_UNICAST == "U"
PACKETTYPE_BROADCAST == "B"
packet(type, payload) == [packet_type |-> type, packet_payload |-> payload]
DataPacket == packet(PACKETTYPE_BROADCAST, "data")

\* The sequences of at most n packets drawn from the set P.
PacketSeqs(P, n) == UNION {[1..k -> P] : k \in 0..n}

\* rtc.wakeup(2 * 1000, rtc_callback): the hardware tick, counted from rtc.init().
IsRtcTick(t) == (t - BootWallS) % RtcTickS = 0

\* A handler that asserts the flag one hardware tick before the alarm is due.
rtc_callback_early(st, t) ==
    IF 0 < st.alarm /\ st.alarm <= t + RtcTickS
    THEN [st EXCEPT !.flag = TRUE, !.seconds = t,
                    !.alarm = st.alarm + st.period, !.asserts = st.asserts + 1]
    ELSE st

\* rtc_callback at wall time t, on st = [flag, seconds, alarm, period, asserts].
rtc_callback(st, t) ==
    IF 0 < st.alarm /\ st.alarm <= t
    THEN [st EXCEPT !.flag = TRUE, !.seconds = t,
                    !.alarm = st.alarm + st.period, !.asserts = st.asserts + 1]
    ELSE st

\* The RTC plane after d seconds have passed from wall time t.
RECURSIVE RtcTicks(_, _, _)
RtcTicks(st, t, d) ==
    IF d = 0 THEN st
    ELSE RtcTicks(IF IsRtcTick(t + 1) THEN rtc_callback(st, t + 1) ELSE st, t + 1, d - 1)

\* d seconds pass while the supervisor blocks; the flag and the alarm start from
\* the values the step has just given them.
TimePasses(flag0, alarm0, d) ==
    LET st == RtcTicks([flag |-> flag0, seconds |-> _rtc_callback_seconds,
                        alarm |-> alarm0, period |-> _rtc_alarm_period_s,
                        asserts |-> rtc_asserts], now, d)
    IN /\ now + d <= LoopStart + env.max_time
       /\ now' = now + d
       /\ _rtc_callback_flag' = st.flag
       /\ _rtc_callback_seconds' = st.seconds
       /\ _rtc_next_alarm_time_s' = st.alarm
       /\ rtc_asserts' = st.asserts
       /\ UNCHANGED _rtc_alarm_period_s

NoTime == UNCHANGED <<now, isrVars>>

\* A sleep_ms() of a few milliseconds: the wall clock may move to the next second.
Brief == env.brief

\* rtc_set_next_alarm_time_s(alarm_time_s_from_now) at wall time t
rtc_set_next_alarm_time_s(alarm, alarm_time_s_from_now, t) ==
    IF 0 < alarm_time_s_from_now /\ alarm_time_s_from_now <= AlarmMaxS
    THEN t + alarm_time_s_from_now
    ELSE alarm

\* What is_wifi_connected() (158-161) may answer: the interface joins and loses
\* the access point on its own once it has been activated.
is_wifi_connected_results ==
    IF wlan = "active" /\ ~(now - LoopStart \in env.ap_down) THEN env.link ELSE {FALSE}

\* ------------------------------------------------------------------- Init
\* The state when run_mainloop enters its while loop (mainloop.py 317-458).
InitWith(e) ==
    /\ pc = "top"
    /\ now = LoopStart
    /\ _rtc_callback_flag = TRUE
    /\ _rtc_callback_seconds = 0
    /\ _rtc_alarm_period_s = AlarmPeriodS
    /\ _rtc_next_alarm_time_s = BootWallS + AlarmPeriodS
    /\ _nm3_callback_flag = FALSE
    /\ _nm3_callback_seconds = 0
    /\ _nm3_callback_millis = 0
    /\ _nm3_callback_micros = 0
    /\ _wifi_current_transition = _wifi_transition_static
    /\ wifi_connection_retry_count = 0
    /\ wifi_connecting_start_time = 0
    /\ wifi_disconnecting_start_time = 0
    /\ json_to_send_messages = <<>>
    /\ json_to_send_statuses = <<>>
    /\ json_to_send_network_topologies = <<>>
    /\ status_seq = 0
    /\ message_seq = 0
    /\ network_topology_seq = 0
    /\ network_nm3_gateway_stay_awake = TRUE
    /\ network_node_addresses = <<>>
    /\ network_cycle_counter = 0
    /\ network_cycle_limit = 6
    /\ network_partials_counter = 0
    /\ network_partials_per_full_discovery = 6
    /\ network_frame_interval_s = 3600
    /\ network_next_frame_time_s = LoopStart
    /\ network_is_configured = FALSE
    /\ network_do_full_configuration = FALSE
    /\ network_do_partial_configuration = FALSE
    /\ network_config_is_stale = TRUE
    /\ nm3_startup_time = 0
    /\ time_till_next_frame = 0
    /\ timestamp = NoStamp
    /\ http = NoHttp
    /\ wlan = "off"
    /\ env = e
    /\ uart_packets = <<>>
    /\ power = [en_3v3 |-> TRUE, tx |-> TRUE, nm3 |-> TRUE]
    /\ wdt_fed = LoopStart
    /\ rtc_asserts = 0
    /\ wifi_branch = "none"
    /\ wifi_failures = 0
    /\ nm3_syncs = 0
    /\ nm3_firings = <<>>
    /\ posted = [messages |-> <<>>, statuses |-> <<>>, topologies |-> <<>>]
    /\ last_post = NoPost
    /\ created = [messages |-> 0, statuses |-> 0, topologies |-> 0]
    /\ nodes_changed = FALSE
    /\ effects = {}
    /\ partial_run = NoRun

\* One node, a frame every 62 s, the NM3 switched off in sleep.
DocOneNode == config_doc(FALSE, 2, 1, 62, <<7>>)

\* The surroundings of Spec: WiFi configured, an access point in range whose
\* link comes and goes, a backend that takes every post and serves DocOneNode
\* or fails the request, without delay, discoveries that succeed, NM3 edges at
\* any point.
EnvSpec ==
    [wifi_cfg |-> TRUE, docs |-> {DocOneNode}, ap_down |-> {}, http_s |-> {0},
     http_status |-> {200}, http_fail |-> {NoDoc},
     start |-> {TRUE}, discovery |-> {TRUE}, brief |-> {0, 1},
     discovery_s |-> 1..MaxNetS, gather_s |-> 0..MaxNetS,
     gather_packets |-> 0..MaxPackets, gather_syncs |-> {FALSE},
     isr_packets |-> PacketSeqs({DataPacket}, MaxPackets), modules |-> {0},
     raises |-> FALSE, link |-> BOOLEAN,
     max_syncs |-> MaxNm3Syncs, max_time |-> MaxTime]

Init == InitWith(EnvSpec)

\* ------------------------------------------------------- interrupt: NM3 synch
\* nm3_callback (mainloop.py 231-241): the modem raises its flag line; a packet
\* may follow on the UART.  The edge ends a lightsleep that has halted the
\* CPU; an edge served before machine.lightsleep() is called wakes nothing.
Nm3Isr ==
    /\ nm3_syncs < env.max_syncs
    /\ power.nm3
    /\ _nm3_callback_micros' = clock_reading
    /\ _nm3_callback_millis' = clock_reading
    /\ _nm3_callback_seconds' = now
    /\ _nm3_callback_flag' = TRUE
    /\ nm3_syncs' = nm3_syncs + 1
    /\ nm3_firings' = Append(nm3_firings, now)
    /\ \E pkts \in env.isr_packets : uart_packets' = uart_packets \o pkts
    /\ pc' = IF pc = "asleep" THEN "sleep_loop" ELSE pc
    /\ UNCHANGED <<now, isrVars, wifiVars, queueVars, seqVars, cfgVars, runVars,
                   network_config_is_stale, localVars, http, wlan, env,
                   power, wdt_fed, histVars>>

\* ------------------------------------------------------------ supervisor loop
\* mainloop.py 465-472: feed the watchdog, enable the 3V3 rail, sleep_ms(10).
LoopTop ==
    /\ pc = "top"
    /\ wdt_fed' = now
    /\ power' = [power EXCEPT !.en_3v3 = TRUE]
    /\ \E d \in Brief : TimePasses(_rtc_callback_flag, _rtc_next_alarm_time_s, d)
    /\ pc' = "rtc_test"
    /\ UNCHANGED <<nm3Vars, wifiVars, queueVars, seqVars, cfgVars, runVars,
                   network_config_is_stale, localVars, http, wlan, env,
                   histVars>>

\* mainloop.py 811: if _rtc_callback_flag.  The interrupt may run again between
\* this test and the clear of line 812.
RtcTest ==
    /\ pc = "rtc_test"
    /\ IF _rtc_callback_flag
       THEN /\ pc' = "rtc_clear"
            /\ \E d \in Brief : TimePasses(_rtc_callback_flag, _rtc_next_alarm_time_s, d)
       ELSE /\ pc' = "relay_test"
            /\ NoTime
    /\ UNCHANGED <<nm3Vars, wifiVars, queueVars, seqVars, cfgVars, runVars,
                   network_config_is_stale, localVars, http, wlan, env,
                   power, wdt_fed, histVars>>

\* The flag left standing by the branch.
rtc_flag_kept == TRUE

\* mainloop.py 812: _rtc_callback_flag = False
rtc_flag_cleared == FALSE

\* An RTC branch that does not mark the network config stale.
RtcBranch_not_stale ==
    /\ pc = "rtc_clear"
    /\ TimePasses(rtc_flag_cleared, _rtc_next_alarm_time_s, 0)
    /\ power' = [en_3v3 |-> TRUE, tx |-> TRUE, nm3 |-> TRUE]
    /\ nm3_startup_time' = now
    /\ json_to_send_statuses' =
           deque_append(json_to_send_statuses, new_item(status_seq), StatusesMaxLen)
    /\ status_seq' = next_seq(status_seq)
    /\ created' = [created EXCEPT !.statuses = @ + 1]
    /\ pc' = "nm3_settle"
    /\ UNCHANGED <<nm3Vars, wifiVars, json_to_send_messages,
                   json_to_send_network_topologies, message_seq, network_topology_seq,
                   cfgVars, runVars, time_till_next_frame, timestamp, http, wlan, env,
                   wdt_fed, posted, last_post, nodes_changed, effects, partial_run,
                   network_config_is_stale>>

\* mainloop.py 812-855: clear the flag, power the NM3, read the sensors (inside
\* the settle time), append one status and mark the network config stale.
RtcBranch ==
    /\ pc = "rtc_clear"
    /\ TimePasses(rtc_flag_cleared, _rtc_next_alarm_time_s, 0)
    /\ power' = [en_3v3 |-> TRUE, tx |-> TRUE, nm3 |-> TRUE]
    /\ nm3_startup_time' = now
    /\ json_to_send_statuses' =
           deque_append(json_to_send_statuses, new_item(status_seq), StatusesMaxLen)
    /\ status_seq' = next_seq(status_seq)
    /\ created' = [created EXCEPT !.statuses = @ + 1]
    /\ network_config_is_stale' = TRUE
    /\ pc' = "nm3_settle"
    /\ UNCHANGED <<nm3Vars, wifiVars, json_to_send_messages,
                   json_to_send_network_topologies, message_seq, network_topology_seq,
                   cfgVars, runVars, time_till_next_frame, timestamp, http, wlan, env,
                   wdt_fed, posted, last_post, nodes_changed, effects, partial_run>>

\* mainloop.py 858-860: while utime.time() < nm3_startup_time + 7: sleep_ms(100)
SettleTick ==
    /\ pc = "nm3_settle"
    /\ now < nm3_startup_time + Nm3SettleS
    /\ TimePasses(_rtc_callback_flag, _rtc_next_alarm_time_s, 1)
    /\ UNCHANGED <<pc, nm3Vars, wifiVars, queueVars, seqVars, cfgVars, runVars,
                   network_config_is_stale, localVars, http, wlan, env,
                   power, wdt_fed, histVars>>

SettleDone ==
    /\ pc = "nm3_settle"
    /\ ~(now < nm3_startup_time + Nm3SettleS)
    /\ pc' = "relay_test"
    /\ NoTime
    /\ UNCHANGED <<nm3Vars, wifiVars, queueVars, seqVars, cfgVars, runVars,
                   network_config_is_stale, localVars, http, wlan, env,
                   power, wdt_fed, histVars>>

\* A window that is still open at its thirtieth second.
RelayGate_inclusive == _nm3_callback_flag \/ now <= _nm3_callback_seconds + Nm3WindowS

\* mainloop.py 864: if _nm3_callback_flag or (utime.time() < _nm3_callback_seconds + 30)
RelayGate == _nm3_callback_flag \/ now < _nm3_callback_seconds + Nm3WindowS

RelayTest ==
    /\ pc = "relay_test"
    /\ pc' = IF RelayGate THEN "relay" ELSE "frame_test"
    /\ NoTime
    /\ UNCHANGED <<nm3Vars, wifiVars, queueVars, seqVars, cfgVars, runVars,
                   network_config_is_stale, localVars, http, wlan, env,
                   power, wdt_fed, histVars>>

\* mainloop.py 1062-1074: message_json = {..., "seqNo": message_seq, "retry": 0};
\* message_seq += 1; json_to_send_messages.append(message_json), for the k
\* packets of a gather in turn.
RECURSIVE enqueue_messages(_, _, _)
enqueue_messages(q, seq, k) ==
    IF k = 0 THEN [queue |-> q, seq |-> seq]
    ELSE enqueue_messages(deque_append(q, new_item(seq), MessagesMaxLen),
                          next_seq(seq), k - 1)

\* A command word honoured whatever the packet type.
is_command_any_type(p, word) == p.packet_payload # "" /\ p.packet_payload = word

\* mainloop.py 902-903 (910, 930, 937, 961): packet_type == PACKETTYPE_UNICAST
\* and packet_payload and bytes(packet_payload) == word
is_command(p, word) ==
    /\ p.packet_type = PACKETTYPE_UNICAST
    /\ p.packet_payload # ""
    /\ p.packet_payload = word

\* Something done with the packet p: "enqueue" or a command side effect.
effect(p, name) ==
    [packet_type |-> p.packet_type, packet_payload |-> p.packet_payload, effect |-> name]

\* A relay that obeys the reset command before it has enqueued the packet.
relay_packet_dispatch_first(r, p, modules) ==
    IF is_command(p, "USMRT")
    THEN [r EXCEPT !.effects = @ \cup {effect(p, "reset")}, !.reset = TRUE]
    ELSE [r EXCEPT !.queue = deque_append(r.queue, new_item(r.seq), MessagesMaxLen),
                   !.seq = next_seq(r.seq), !.created = r.created + 1,
                   !.effects = @ \cup {effect(p, "enqueue")}]

\* mainloop.py 876-986 for one packet p, on the running totals r of the relay
\* step: enqueue the message, then process the special packets.  r.t is the
\* time spent so far, r.fed the wall time of the last wdt.feed(), r.reset is
\* set by machine.reset().
relay_packet(r, p, modules) ==
    LET m == [r EXCEPT !.queue = deque_append(r.queue, new_item(r.seq), MessagesMaxLen),
                       !.seq = next_seq(r.seq), !.created = r.created + 1,
                       !.effects = @ \cup {effect(p, "enqueue")}]
    IN IF is_command(p, "USMRT")
       THEN [m EXCEPT !.effects = @ \cup {effect(p, "reset")}, !.reset = TRUE]
       ELSE IF is_command(p, "USOTA")
       THEN [m EXCEPT !.effects = @ \cup {effect(p, "ota_marker"), effect(p, "reset")},
                      !.reset = TRUE]
       ELSE IF is_command(p, "USPNG")
       THEN [m EXCEPT !.effects = @ \cup {effect(p, "alive")}]
       ELSE IF is_command(p, "USMOD")
       THEN [m EXCEPT !.effects = @ \cup (IF modules > 0 THEN {effect(p, "modules")} ELSE {}),
                      !.t = @ + modules * SendS,
                      !.fed = IF modules > 0 THEN now + m.t + modules * SendS ELSE @]
       ELSE IF is_command(p, "USCALDO")
       THEN [m EXCEPT !.effects = @ \cup {effect(p, "calibration")},
                      !.t = @ + SendS + CalibrationS + SendS,
                      !.fed = now + m.t + SendS + CalibrationS]
       ELSE m

\* The while nm3_modem.has_received_packet() loop (872-986) over the packets
\* the driver has decoded; a reset ends it.
RECURSIVE relay_packets(_, _, _)
relay_packets(r, pkts, modules) ==
    IF pkts = <<>> \/ r.reset THEN r
    ELSE relay_packets(relay_packet(r, Head(pkts), modules), Tail(pkts), modules)

\* mainloop.py 864-986: clear the flag, poll the modem, enqueue every packet
\* the driver has decoded and obey the commands among them.
RelayStep ==
    /\ pc = "relay"
    /\ _nm3_callback_flag' = FALSE
    /\ \E modules \in env.modules :
          LET r == relay_packets([queue |-> json_to_send_messages, seq |-> message_seq,
                                  created |-> created.messages, effects |-> {},
                                  t |-> 0, fed |-> wdt_fed, reset |-> FALSE],
                                 uart_packets, modules)
          IN /\ uart_packets' = <<>>
             /\ timestamp' = IF uart_packets = <<>> THEN timestamp
                             ELSE hw_timestamp(_nm3_callback_seconds, _nm3_callback_millis,
                                               _nm3_callback_micros)
             /\ json_to_send_messages' = r.queue
             /\ message_seq' = r.seq
             /\ created' = [created EXCEPT !.messages = r.created]
             /\ effects' = r.effects
             /\ wdt_fed' = r.fed
             /\ TimePasses(_rtc_callback_flag, _rtc_next_alarm_time_s, r.t)
             /\ pc' = IF r.reset THEN "reset" ELSE "frame_test"
    /\ UNCHANGED <<_nm3_callback_seconds, _nm3_callback_millis, _nm3_callback_micros,
                   nm3_syncs, nm3_firings, wifiVars, json_to_send_statuses,
                   json_to_send_network_topologies, status_seq, network_topology_seq,
                   cfgVars, runVars, network_config_is_stale, nm3_startup_time,
                   time_till_next_frame, http,
                   wlan, env, power, posted, last_post, nodes_changed, partial_run>>

\* ---------------------------------------------------------- network frame
\* mainloop.py 989: if network_node_addresses and network_next_frame_time_s <= utime.time()
FrameGate == Len(network_node_addresses) > 0 /\ network_next_frame_time_s <= now

FrameTest ==
    /\ pc = "frame_test"
    /\ pc' = IF FrameGate THEN "configure" ELSE "wifi_test"
    /\ NoTime
    /\ UNCHANGED <<nm3Vars, wifiVars, queueVars, seqVars, cfgVars, runVars,
                   network_config_is_stale, localVars, http, wlan, env,
                   power, wdt_fed, histVars>>

\* mainloop.py 993-999: the rediscovery requests after the cycle-limit test.
do_full_request ==
    IF network_cycle_counter >= network_cycle_limit
       /\ network_partials_counter >= network_partials_per_full_discovery
    THEN TRUE ELSE network_do_full_configuration

\* A partial request that the cycle limit does not raise.
do_partial_request_standing == network_do_partial_configuration

do_partial_request ==
    IF network_cycle_counter >= network_cycle_limit
    THEN ~(network_partials_counter >= network_partials_per_full_discovery)
    ELSE network_do_partial_configuration

\* The partial rediscoveries since the last full one, after a rediscovery: a
\* successful full one starts the count, a successful partial one adds to it,
\* a failed one ends it.
run_after(ok, full) ==
    IF ~ok THEN NoRun
    ELSE IF full THEN 0
    ELSE IF partial_run = NoRun THEN NoRun
    ELSE partial_run + 1

\* mainloop.py 993-1024: decide on a rediscovery and run it.  A discovery takes
\* at least a second of acoustic handshakes; the protocol engine holds the
\* watchdog (net_protocol.init(nm3_modem, network_node_addresses, wdt)).
FrameConfigure ==
    /\ pc = "configure"
    /\ pc' = "gather"
    /\ IF do_full_request \/ do_partial_request
       THEN \E ok \in env.discovery, d \in env.discovery_s :
              LET partials == IF do_full_request THEN 0 ELSE network_partials_counter
              IN /\ TimePasses(_rtc_callback_flag, _rtc_next_alarm_time_s, d)
                 /\ wdt_fed' = now + d
                 /\ network_is_configured' = ok
                 /\ network_cycle_counter' = IF ok THEN 0 ELSE network_cycle_counter
                 /\ network_partials_counter' =
                        IF ok /\ do_partial_request THEN partials + 1 ELSE partials
                 /\ network_do_full_configuration' =
                        IF ok THEN FALSE ELSE do_full_request
                 /\ network_do_partial_configuration' =
                        IF ok THEN FALSE ELSE do_partial_request
                 /\ network_next_frame_time_s' =
                        IF ok THEN now + d ELSE network_next_frame_time_s
                 /\ partial_run' = run_after(ok, do_full_request)
       ELSE /\ NoTime
            /\ UNCHANGED <<runVars, wdt_fed, partial_run>>
    /\ nodes_changed' = FALSE
    /\ UNCHANGED <<nm3Vars, wifiVars, queueVars, seqVars, cfgVars,
                   network_config_is_stale, localVars, http, wlan, env,
                   power, posted, last_post, created, effects>>

\* An exception that leaves run_mainloop.
exception_propagates == "halted"

\* mainloop.py 1368-1372: except Exception: print and jot it, pass; the while
\* True loop goes on with its next iteration.
exception_caught == "top"

\* mainloop.py 993-1013 when net_protocol.do_net_discovery() raises: the
\* requests are recorded, a full rediscovery has reset the partials counter,
\* the network is marked unconfigured, and the iteration ends in the handler.
FrameConfigureRaises ==
    /\ pc = "configure"
    /\ env.raises
    /\ do_full_request \/ do_partial_request
    /\ pc' = exception_caught
    /\ network_is_configured' = FALSE
    /\ network_partials_counter' =
           IF do_full_request THEN 0 ELSE network_partials_counter
    /\ network_do_full_configuration' = do_full_request
    /\ network_do_partial_configuration' = do_partial_request
    /\ nodes_changed' = FALSE
    /\ partial_run' = NoRun
    /\ NoTime
    /\ UNCHANGED <<nm3Vars, wifiVars, queueVars, seqVars, cfgVars,
                   network_cycle_counter, network_next_frame_time_s,
                   network_config_is_stale, localVars, http, wlan, env,
                   power, wdt_fed, posted, last_post, created, effects>>

\* A topology record that always carries gather information.
new_topology_gathered(seq, gathered) ==
    [seqNo |-> seq, retry |-> 0, data_gathering |-> TRUE]

\* {"topology": ..., "config": ..., "data_gathering": ..., "seqNo": seq, "retry": 0}
new_topology(seq, gathered) == [seqNo |-> seq, retry |-> 0, data_gathering |-> gathered]

\* mainloop.py 1026-1089: when configured, advance the frame time, set the RTC
\* alarm, gather (d seconds, k packets) and enqueue the packets; always append
\* one topology record.  A node's answer raises the modem's flag line, so
\* nm3_callback may have run by the end of the gather (sync).
FrameGather ==
    /\ pc = "gather"
    /\ pc' = "wifi_test"
    /\ IF network_is_configured
       THEN \E k \in env.gather_packets, d \in env.gather_s, sync \in env.gather_syncs :
              LET next_frame == network_next_frame_time_s + network_frame_interval_s
                  r == enqueue_messages(json_to_send_messages, message_seq, k)
              IN /\ network_next_frame_time_s' = next_frame
                 /\ time_till_next_frame' = (next_frame - now) * 1000
                 /\ TimePasses(_rtc_callback_flag,
                               rtc_set_next_alarm_time_s(_rtc_next_alarm_time_s,
                                            next_frame - now - FrameLeadS, now), d)
                 /\ wdt_fed' = IF d > 0 THEN now + d ELSE wdt_fed
                 /\ network_cycle_counter' = network_cycle_counter + 1
                 /\ json_to_send_messages' = r.queue
                 /\ message_seq' = r.seq
                 /\ created' = [created EXCEPT !.messages = @ + k, !.topologies = @ + 1]
                 /\ _nm3_callback_flag' = (sync \/ _nm3_callback_flag)
                 /\ _nm3_callback_seconds' =
                        IF sync THEN now + d ELSE _nm3_callback_seconds
                 /\ _nm3_callback_millis' =
                        IF sync THEN clock_reading ELSE _nm3_callback_millis
                 /\ _nm3_callback_micros' =
                        IF sync THEN clock_reading ELSE _nm3_callback_micros
                 /\ nm3_firings' =
                        IF sync THEN Append(nm3_firings, now + d) ELSE nm3_firings
       ELSE /\ NoTime
            /\ created' = [created EXCEPT !.topologies = @ + 1]
            /\ UNCHANGED <<network_next_frame_time_s, time_till_next_frame,
                           network_cycle_counter, json_to_send_messages, message_seq,
                           wdt_fed, _nm3_callback_flag, _nm3_callback_seconds,
                           _nm3_callback_millis, _nm3_callback_micros, nm3_firings>>
    /\ json_to_send_network_topologies' =
           deque_append(json_to_send_network_topologies,
                        new_topology(network_topology_seq, network_is_configured),
                        TopologiesMaxLen)
    /\ network_topology_seq' = next_seq(network_topology_seq)
    /\ UNCHANGED <<nm3_syncs, uart_packets, wifiVars, json_to_send_statuses,
                   status_seq, cfgVars,
                   network_partials_counter, network_is_configured,
                   network_do_full_configuration, network_do_partial_configuration,
                   network_config_is_stale, nm3_startup_time, timestamp, http, wlan, env,
                   power, posted, last_post, nodes_changed, effects, partial_run>>

\* ------------------------------------------------------------------- WiFi
\* mainloop.py 1093
WifiGate ==
    \/ Len(json_to_send_messages) > 0
    \/ Len(json_to_send_statuses) > 0
    \/ Len(json_to_send_network_topologies) > 0
    \/ network_config_is_stale

\* A start that does not wait for the cooldown.
MayStartConnect_no_cooldown(wifi_connected) ==
    /\ ~wifi_connected
    /\ ~(_wifi_current_transition = _wifi_transition_connecting)

\* mainloop.py 1103-1106
MayStartConnect(wifi_connected) ==
    /\ ~wifi_connected
    /\ ~(_wifi_current_transition = _wifi_transition_connecting)
    /\ now > wifi_disconnecting_start_time + WifiCooldownS

\* A timeout of twice the time.
ConnectTimedOut_late ==
    /\ _wifi_current_transition = _wifi_transition_connecting
    /\ now > wifi_connecting_start_time + 2 * WifiTimeoutS

\* mainloop.py 1294-1295
ConnectTimedOut ==
    /\ _wifi_current_transition = _wifi_transition_connecting
    /\ now > wifi_connecting_start_time + WifiTimeoutS

\* One more attempt has failed; the history stops counting past the budget.
one_more_failure == IF wifi_failures > WifiRetryLimit THEN wifi_failures ELSE wifi_failures + 1

\* mainloop.py 1111-1119 with start_connect_to_wifi (107-135): activate the
\* interface and start joining; started is False when status() <= 0.
WifiStartConnect ==
    /\ wlan' = "active"
    /\ \E started \in env.start :
          IF started
          THEN /\ wifi_connecting_start_time' = now
               /\ _wifi_current_transition' = _wifi_transition_connecting
               /\ wifi_connection_retry_count' = wifi_connection_retry_count + 1
               /\ wifi_branch' = "start"
               /\ UNCHANGED <<wifi_disconnecting_start_time, wifi_failures>>
          ELSE /\ wifi_branch' = "start_failed"
               /\ wifi_failures' = one_more_failure
               /\ UNCHANGED <<_wifi_current_transition, wifi_connection_retry_count,
                              wifi_connecting_start_time, wifi_disconnecting_start_time>>
    /\ pc' = "sleep_test"
    /\ UNCHANGED <<queueVars, network_config_is_stale, http>>

\* A branch that drops the messages and the topologies but keeps the statuses.
WifiNoConfig_keeps_statuses ==
    /\ json_to_send_messages' = <<>>
    /\ json_to_send_network_topologies' = <<>>
    /\ network_config_is_stale' = FALSE
    /\ _wifi_current_transition' = _wifi_transition_static
    /\ wifi_branch' = "no_config"
    /\ pc' = "sleep_test"
    /\ UNCHANGED <<json_to_send_statuses, wifi_connection_retry_count,
                   wifi_connecting_start_time, wifi_disconnecting_start_time,
                   wifi_failures, wlan, http>>

\* mainloop.py 1120-1132: no WiFi configuration, drop everything queued.
WifiNoConfig ==
    /\ json_to_send_messages' = <<>>
    /\ json_to_send_statuses' = <<>>
    /\ json_to_send_network_topologies' = <<>>
    /\ network_config_is_stale' = FALSE
    /\ _wifi_current_transition' = _wifi_transition_static
    /\ wifi_branch' = "no_config"
    /\ pc' = "sleep_test"
    /\ UNCHANGED <<wifi_connection_retry_count, wifi_connecting_start_time,
                   wifi_disconnecting_start_time, wifi_failures, wlan, http>>

\* mainloop.py 1134-1145: connected; pull the config if stale, then ship.
WifiConnected ==
    /\ _wifi_current_transition' = _wifi_transition_static
    /\ wifi_connection_retry_count' = 0
    /\ wifi_branch' = "connected"
    /\ wifi_failures' = 0
    /\ http' = NoHttp
    /\ pc' = IF network_config_is_stale THEN "cfg_get" ELSE "ship_messages"
    /\ UNCHANGED <<wifi_connecting_start_time, wifi_disconnecting_start_time,
                   queueVars, network_config_is_stale, wlan>>

\* A disconnect that leaves the interface active.
disconnect_from_wifi_stays_active == wlan' = wlan

\* disconnect_from_wifi (164-178)
disconnect_from_wifi == wlan' = "off"

\* mainloop.py 1294-1303: connecting took too long.
WifiTimeout ==
    /\ wifi_disconnecting_start_time' = now
    /\ disconnect_from_wifi
    /\ _wifi_current_transition' = _wifi_transition_disconnecting
    /\ wifi_branch' = "timeout"
    /\ wifi_failures' = one_more_failure
    /\ pc' = "sleep_test"
    /\ UNCHANGED <<wifi_connection_retry_count, wifi_connecting_start_time,
                   queueVars, network_config_is_stale, http>>

\* mainloop.py 1305-1307, and the step skipped when nothing is to be sent.
WifiPause ==
    /\ wifi_branch' = "pause"
    /\ pc' = "sleep_test"
    /\ UNCHANGED <<_wifi_current_transition, wifi_connection_retry_count,
                   wifi_connecting_start_time, wifi_disconnecting_start_time,
                   wifi_failures, queueVars, network_config_is_stale, wlan, http>>

\* mainloop.py 1093-1307: the WiFi step up to the choice of its branch.
WifiStep ==
    /\ pc = "wifi_test"
    /\ IF ~WifiGate THEN WifiPause
       ELSE \E wifi_connected \in is_wifi_connected_results :
              IF MayStartConnect(wifi_connected)
              THEN (IF env.wifi_cfg THEN WifiStartConnect ELSE WifiNoConfig)
              ELSE IF wifi_connected THEN WifiConnected
              ELSE IF ConnectTimedOut THEN WifiTimeout
              ELSE WifiPause
    /\ posted' = [messages |-> <<>>, statuses |-> <<>>, topologies |-> <<>>]
    /\ last_post' = NoPost
    /\ NoTime
    /\ UNCHANGED <<nm3Vars, seqVars, cfgVars, runVars, localVars, env, power,
                   wdt_fed, created, nodes_changed, effects, partial_run>>

\* ------------------------------------------------------------ config pull
\* mainloop.py 1152-1172: one GET of /networkconfig/latest/; NoDoc stands for
\* a status outside 200..299 or an exception.
CfgGetAttempt ==
    /\ pc = "cfg_get"
    /\ ~http.success_flag /\ http.retry_count < HttpAttempts
    /\ \E d \in env.http_s, doc \in env.docs \cup env.http_fail :
          /\ http' = [http EXCEPT !.retry_count = @ + 1,
                                  !.success_flag = (doc # NoDoc), !.doc = doc]
          /\ TimePasses(_rtc_callback_flag, _rtc_next_alarm_time_s, d)
    /\ UNCHANGED <<pc, nm3Vars, wifiVars, queueVars, seqVars, cfgVars, runVars,
                   network_config_is_stale, localVars, wlan, env, power,
                   wdt_fed, histVars>>

\* mainloop.py 1184-1190: a change of the node addresses
node_addresses_changed(node_addresses, current) ==
    \/ Len(node_addresses) # Len(current)
    \/ \E i \in 1..Len(node_addresses) :
          \A j \in 1..Len(current) : node_addresses[i] # current[j]

\* The keys of the document in the order lines 1175-1182 read them.
ConfigKeys ==
    <<"nm3GatewayStayAwake", "cycleLimit", "partialsPerFullDiscovery",
      "frameIntervalS", "nodeAddresses">>

\* The document without one of its keys.
without(doc, key) == [k \in DOMAIN doc \ {key} |-> doc[k]]

\* How many keys are read before network_config_json[key] raises KeyError.
keys_read(doc) ==
    LET missing == {i \in 1..Len(ConfigKeys) : ConfigKeys[i] \notin DOMAIN doc}
    IN IF missing = {} THEN Len(ConfigKeys)
       ELSE (CHOOSE i \in missing : \A j \in missing : i <= j) - 1

\* The flag assigned the outcome of the comparison.
do_full_assigned(changed, current) == changed

\* mainloop.py 1184-1190: the flag is set on a change and otherwise left alone
do_full_after(changed, current) == IF changed THEN TRUE ELSE current

\* The addresses of a node list, as a set.
node_set(node_addresses) == {node_addresses[i] : i \in 1..Len(node_addresses)}

\* The network configuration and the rediscovery flag the config pull writes.
network_config ==
    [stay_awake |-> network_nm3_gateway_stay_awake,
     cycle_limit |-> network_cycle_limit,
     partials_per_full |-> network_partials_per_full_discovery,
     frame_interval_s |-> network_frame_interval_s,
     nodes |-> network_node_addresses,
     do_full |-> network_do_full_configuration,
     stale |-> network_config_is_stale]

\* mainloop.py 1174-1196 on the configuration c: the assignments up to the
\* first missing key, then the stale flag unless KeyError was raised.
apply_network_config(c, doc) ==
    LET n == keys_read(doc)
    IN [stay_awake |-> IF n >= 1 THEN doc.nm3GatewayStayAwake ELSE c.stay_awake,
        cycle_limit |-> IF n >= 2 THEN doc.cycleLimit ELSE c.cycle_limit,
        partials_per_full |->
            IF n >= 3 THEN doc.partialsPerFullDiscovery ELSE c.partials_per_full,
        frame_interval_s |-> IF n >= 4 THEN doc.frameIntervalS ELSE c.frame_interval_s,
        nodes |-> IF n >= 5 THEN doc.nodeAddresses ELSE c.nodes,
        do_full |-> IF n >= 5
                    THEN do_full_after(node_addresses_changed(doc.nodeAddresses, c.nodes),
                                       c.do_full)
                    ELSE c.do_full,
        stale |-> IF n >= 5 THEN FALSE ELSE c.stale]

\* mainloop.py 1174-1196: apply the document, if one was fetched; the config is
\* no longer stale either way.  A document without one of the keys raises
\* KeyError, which ends the iteration in the handler of line 1368.
CfgApply ==
    /\ pc = "cfg_get"
    /\ ~(~http.success_flag /\ http.retry_count < HttpAttempts)
    /\ IF http.doc # NoDoc
       THEN LET c == apply_network_config(network_config, http.doc)
                raised == keys_read(http.doc) < Len(ConfigKeys)
            IN /\ network_nm3_gateway_stay_awake' = c.stay_awake
               /\ network_cycle_limit' = c.cycle_limit
               /\ network_partials_per_full_discovery' = c.partials_per_full
               /\ network_frame_interval_s' = c.frame_interval_s
               /\ network_node_addresses' = c.nodes
               /\ network_do_full_configuration' = c.do_full
               /\ network_config_is_stale' = c.stale
               /\ nodes_changed' =
                      (nodes_changed \/ node_set(c.nodes) # node_set(network_node_addresses))
               /\ partial_run' =
                      IF \E k \in {"stay_awake", "cycle_limit", "partials_per_full",
                                   "frame_interval_s", "nodes"} : c[k] # network_config[k]
                      THEN NoRun ELSE partial_run
               /\ http' = IF raised THEN http ELSE NoHttp
               /\ pc' = IF raised THEN exception_caught ELSE "ship_messages"
       ELSE /\ network_config_is_stale' = FALSE
            /\ http' = NoHttp
            /\ pc' = "ship_messages"
            /\ UNCHANGED <<cfgVars, network_do_full_configuration, nodes_changed,
                           partial_run>>
    /\ NoTime
    /\ UNCHANGED <<nm3Vars, wifiVars, queueVars, seqVars, network_cycle_counter,
                   network_partials_counter, network_next_frame_time_s,
                   network_is_configured, network_do_partial_configuration,
                   localVars, wlan, env, power, wdt_fed, posted, last_post,
                   created, effects>>

\* ----------------------------------------------------------------- shipper
Kinds == {"messages", "statuses", "topologies"}

ShipPc(kind) ==
    CASE kind = "messages" -> "ship_messages"
      [] kind = "statuses" -> "ship_statuses"
      [] kind = "topologies" -> "ship_topologies"

AfterShipPc(kind) ==
    CASE kind = "messages" -> "ship_statuses"
      [] kind = "statuses" -> "ship_topologies"
      [] kind = "topologies" -> "sleep_test"

QueueOf(kind) ==
    CASE kind = "messages" -> json_to_send_messages
      [] kind = "statuses" -> json_to_send_statuses
      [] kind = "topologies" -> json_to_send_network_topologies

SetQueue(kind, q) ==
    /\ json_to_send_messages' = IF kind = "messages" THEN q ELSE json_to_send_messages
    /\ json_to_send_statuses' = IF kind = "statuses" THEN q ELSE json_to_send_statuses
    /\ json_to_send_network_topologies' =
           IF kind = "topologies" THEN q ELSE json_to_send_network_topologies

\* deque.pop(): the newest item taken.
pop_right(q) == [item |-> q[Len(q)], rest |-> SubSeq(q, 1, Len(q) - 1)]

\* deque.popleft(): the item taken and the deque left
popleft(q) == [item |-> Head(q), rest |-> Tail(q)]

\* mainloop.py 1202-1205 (1234-1237, 1266-1269): take the next item of the queue.
ShipPop(kind) ==
    /\ pc = ShipPc(kind)
    /\ http.item = NoItem
    /\ Len(QueueOf(kind)) > 0
    /\ LET p == popleft(QueueOf(kind))
       IN /\ SetQueue(kind, p.rest)
          /\ http' = [NoHttp EXCEPT !.item = [seqNo |-> p.item.seqNo, retry |-> 0]]
    /\ NoTime
    /\ UNCHANGED <<pc, nm3Vars, wifiVars, seqVars, cfgVars, runVars,
                   network_config_is_stale, localVars, wlan, env, power,
                   wdt_fed, histVars>>

\* mainloop.py 1216: if 200 <= response.status_code < 300.  Status 0 stands for
\* a request that raised instead of answering.
is_success(status) == HttpOkMin <= status /\ status < HttpOkEnd

\* A shipper that repeats a POST until it succeeds.
post_is_final_on_success(success_flag, retry_count) == success_flag

\* mainloop.py 1207: while not success_flag and retry_count < 4, negated
post_is_final(success_flag, retry_count) ==
    ~(~success_flag /\ retry_count < HttpAttempts)

\* mainloop.py 1207-1228 (1239-1260, 1271-1292): one POST of the item; the item
\* is done on a 2xx status or after the fourth attempt.
PostAttempt(kind) ==
    /\ pc = ShipPc(kind)
    /\ http.item # NoItem
    /\ \E d \in env.http_s, status \in env.http_status :
          LET sent == [http.item EXCEPT !.retry = http.retry_count]
              tries == http.retry_count + 1
          IN /\ posted' = IF http.retry_count = 0
                          THEN [posted EXCEPT ![kind] = Append(@, sent.seqNo)]
                          ELSE posted
             /\ last_post' = [kind |-> kind, seqNo |-> sent.seqNo, retry |-> sent.retry,
                              attempt |-> tries, status |-> status]
             /\ http' = IF post_is_final(is_success(status), tries)
                        THEN NoHttp
                        ELSE [http EXCEPT !.retry_count = tries, !.item = sent]
             /\ TimePasses(_rtc_callback_flag, _rtc_next_alarm_time_s, d)
    /\ UNCHANGED <<pc, nm3Vars, wifiVars, queueVars, seqVars, cfgVars, runVars,
                   network_config_is_stale, localVars, wlan, env, power,
                   wdt_fed, created, nodes_changed, effects, partial_run>>

\* The while loop over the queue ends when the queue is empty.
ShipNext(kind) ==
    /\ pc = ShipPc(kind)
    /\ http.item = NoItem
    /\ Len(QueueOf(kind)) = 0
    /\ pc' = AfterShipPc(kind)
    /\ NoTime
    /\ UNCHANGED <<nm3Vars, wifiVars, queueVars, seqVars, cfgVars, runVars,
                   network_config_is_stale, localVars, http, wlan, env, power,
                   wdt_fed, histVars>>

Ship == \E kind \in Kinds : ShipPop(kind) \/ PostAttempt(kind) \/ ShipNext(kind)

\* -------------------------------------------------------------------- sleep
\* mainloop.py 1311-1316
SleepGate ==
    /\ ~_rtc_callback_flag
    /\ ~_nm3_callback_flag
    /\ \/ wifi_connection_retry_count > WifiRetryLimit
       \/ /\ Len(json_to_send_messages) = 0
          /\ Len(json_to_send_statuses) = 0
          /\ now > _nm3_callback_seconds + Nm3WindowS
          /\ \/ Len(network_node_addresses) = 0
             \/ now + FrameLeadS < network_next_frame_time_s

\* A sleep decision that leaves wifi_connection_retry_count as it is.
SleepTest_keeps_retry_count ==
    /\ pc = "sleep_test"
    /\ IF SleepGate
       THEN /\ wifi_disconnecting_start_time' = now
            /\ disconnect_from_wifi
            /\ _wifi_current_transition' = _wifi_transition_disconnecting
            /\ wifi_failures' = 0
            /\ pc' = "spin"
            /\ UNCHANGED <<wifi_connecting_start_time, wifi_branch,
                           wifi_connection_retry_count>>
       ELSE /\ pc' = "top"
            /\ UNCHANGED <<wifiVars, wlan>>
    /\ NoTime
    /\ UNCHANGED <<nm3Vars, queueVars, seqVars, cfgVars, runVars,
                   network_config_is_stale, localVars, http, env, power,
                   wdt_fed, histVars>>

\* mainloop.py 1311-1322: decide on sleep; if so, switch the WiFi off first.
SleepTest ==
    /\ pc = "sleep_test"
    /\ IF SleepGate
       THEN /\ wifi_disconnecting_start_time' = now
            /\ disconnect_from_wifi
            /\ wifi_connection_retry_count' = 0
            /\ _wifi_current_transition' = _wifi_transition_disconnecting
            /\ wifi_failures' = 0
            /\ pc' = "spin"
            /\ UNCHANGED <<wifi_connecting_start_time, wifi_branch>>
       ELSE /\ pc' = "top"
            /\ UNCHANGED <<wifiVars, wlan>>
    /\ NoTime
    /\ UNCHANGED <<nm3Vars, queueVars, seqVars, cfgVars, runVars,
                   network_config_is_stale, localVars, http, env, power,
                   wdt_fed, histVars>>

\* mainloop.py 1323-1324
SpinGate ==
    /\ ~_rtc_callback_flag /\ ~_nm3_callback_flag
    /\ now < wifi_disconnecting_start_time + SpinS

\* mainloop.py 1323-1328: feed the watchdog and sleep_ms(100) while the WiFi
\* chip powers down.
SpinTick ==
    /\ pc = "spin"
    /\ SpinGate
    /\ wdt_fed' = now
    /\ TimePasses(_rtc_callback_flag, _rtc_next_alarm_time_s, 1)
    /\ UNCHANGED <<pc, nm3Vars, wifiVars, queueVars, seqVars, cfgVars, runVars,
                   network_config_is_stale, localVars, http, wlan, env, power,
                   histVars>>

SpinDone ==
    /\ pc = "spin"
    /\ ~SpinGate
    /\ pc' = "double_check"
    /\ NoTime
    /\ UNCHANGED <<nm3Vars, wifiVars, queueVars, seqVars, cfgVars, runVars,
                   network_config_is_stale, localVars, http, wlan, env, power,
                   wdt_fed, histVars>>

\* mainloop.py 1331: the double check of the flags before powering things
\* off.  The NM3 interrupt may run between this test and the power-down.
DoubleCheck ==
    /\ pc = "double_check"
    /\ pc' = IF ~_rtc_callback_flag /\ ~_nm3_callback_flag
             THEN "power_down" ELSE "sleep_loop"
    /\ NoTime
    /\ UNCHANGED <<nm3Vars, wifiVars, queueVars, seqVars, cfgVars, runVars,
                   network_config_is_stale, localVars, http, wlan, env, power,
                   wdt_fed, histVars>>

\* mainloop.py 1332-1345: power down the NM3 (unless it stays awake), the Tx
\* driver and the 3V3 rail; sleep_ms(10).
PowerDown ==
    /\ pc = "power_down"
    /\ power' = [en_3v3 |-> FALSE, tx |-> FALSE,
                 nm3 |-> IF network_nm3_gateway_stay_awake THEN power.nm3 ELSE FALSE]
    /\ NoTime
    /\ pc' = "sleep_loop"
    /\ UNCHANGED <<nm3Vars, wifiVars, queueVars, seqVars, cfgVars, runVars,
                   network_config_is_stale, localVars, http, wlan, env,
                   wdt_fed, histVars>>

\* A sleep loop that looks at the RTC flag only.
SleepLoopGate_rtc_only == ~_rtc_callback_flag

\* mainloop.py 1347: while (not _rtc_callback_flag) and (not _nm3_callback_flag)
SleepLoopGate == ~_rtc_callback_flag /\ ~_nm3_callback_flag

\* mainloop.py 1347-1349: the test of the sleep loop; the RTC interrupt may
\* run between the test and the call of machine.lightsleep().
SleepLoopTest ==
    /\ pc = "sleep_loop"
    /\ IF SleepLoopGate
       THEN /\ wdt_fed' = now
            /\ pc' = "lightsleep"
            /\ \E d \in Brief : TimePasses(_rtc_callback_flag, _rtc_next_alarm_time_s, d)
       ELSE /\ pc' = "wake"
            /\ NoTime
            /\ UNCHANGED wdt_fed
    /\ UNCHANGED <<nm3Vars, wifiVars, queueVars, seqVars, cfgVars, runVars,
                   network_config_is_stale, localVars, http, wlan, env, power,
                   histVars>>

\* mainloop.py 1353: machine.lightsleep() is called and halts the CPU.
LightSleep ==
    /\ pc = "lightsleep"
    /\ pc' = "asleep"
    /\ NoTime
    /\ UNCHANGED <<nm3Vars, wifiVars, queueVars, seqVars, cfgVars, runVars,
                   network_config_is_stale, localVars, http, wlan, env, power,
                   wdt_fed, histVars>>

\* mainloop.py 1353: machine.lightsleep() returns at the next interrupt: here
\* the RTC wakeup tick (an NM3 edge is Nm3Isr).
SleepTick ==
    /\ pc = "asleep"
    /\ TimePasses(_rtc_callback_flag, _rtc_next_alarm_time_s, 1)
    /\ pc' = IF IsRtcTick(now + 1) THEN "sleep_loop" ELSE "asleep"
    /\ UNCHANGED <<nm3Vars, wifiVars, queueVars, seqVars, cfgVars, runVars,
                   network_config_is_stale, localVars, http, wlan, env, power,
                   wdt_fed, histVars>>

\* A wake-up that switches the 3V3 rail back on and leaves the Tx driver off.
WakeUp_rail_only ==
    /\ pc = "wake"
    /\ wdt_fed' = now
    /\ power' = [power EXCEPT !.en_3v3 = TRUE]
    /\ pc' = "top"
    /\ NoTime
    /\ UNCHANGED <<nm3Vars, wifiVars, queueVars, seqVars, cfgVars, runVars,
                   network_config_is_stale, localVars, http, wlan, env,
                   histVars>>

\* mainloop.py 1355-1364: feed the watchdog, switch the 3V3 rail and the Tx
\* driver back on.
WakeUp ==
    /\ pc = "wake"
    /\ wdt_fed' = now
    /\ power' = [power EXCEPT !.en_3v3 = TRUE, !.tx = TRUE]
    /\ pc' = "top"
    /\ NoTime
    /\ UNCHANGED <<nm3Vars, wifiVars, queueVars, seqVars, cfgVars, runVars,
                   network_config_is_stale, localVars, http, wlan, env,
                   histVars>>

\* ------------------------------------------------------------ specifications
\* The loop body while the gateway is awake, without its calls into the modem
\* driver, the network protocol and the HTTP client.
Awake ==
    \/ LoopTop \/ RtcTest \/ RtcBranch \/ SettleTick \/ SettleDone
    \/ RelayTest \/ FrameTest \/ WifiStep \/ SleepTest

\* The way into sleep and out of it.
Asleep ==
    \/ SpinTick \/ SpinDone \/ DoubleCheck \/ PowerDown \/ SleepLoopTest
    \/ LightSleep \/ SleepTick \/ WakeUp

Network == FrameConfigure \/ FrameGather

\* An iteration ended by an exception of the network protocol.
Failure == FrameConfigureRaises

Backend == CfgGetAttempt \/ CfgApply \/ Ship

Next == Awake \/ RelayStep \/ Network \/ Backend \/ Asleep \/ Nm3Isr

Spec == Init /\ [][Next]_vars

\* The gateway with WiFi configured and no access point in range: no config
\* is ever pulled, so there are no nodes and no frames, and nothing is shipped.
EnvNoAp ==
    [EnvSpec EXCEPT !.docs = {},
                    !.ap_down = 0..(MaxTimeNoAp + 1), !.start = BOOLEAN,
                    !.max_syncs = 0, !.max_time = MaxTimeNoAp]

InitNoAp == InitWith(EnvNoAp)

NextNoAp == Awake

SpecNoAp == InitNoAp /\ [][NextNoAp]_vars

\* A frame every second for one node that always answers, the NM3 kept awake.
DocBusy == config_doc(TRUE, 1000, 1, 1, <<7>>)

\* The gateway in a busy network: the access point serves DocBusy and is lost
\* in the eighth second; from then on a frame is due in every iteration, each
\* gather takes a second, returns a packet and leaves the NM3 flag raised.
EnvBusy ==
    [EnvSpec EXCEPT !.docs = {DocBusy}, !.ap_down = 8..(MaxTimeBusy + 1),
                    !.http_status = {200, 500},
                    !.brief = {0}, !.discovery_s = {1}, !.gather_s = {1},
                    !.gather_packets = {1}, !.gather_syncs = {TRUE},
                    !.max_syncs = 0, !.max_time = MaxTimeBusy]

\* The same, the access point back in range after ApBackS seconds and the
\* backend answering on either side of the 2xx range, or not at all.
EnvBacklog ==
    [EnvBusy EXCEPT !.ap_down = 8..(ApBackS - 1), !.max_time = ApBackS + 4,
                    !.http_status = {0, 199, 200, 299, 300}]

InitBusy == InitWith(EnvBusy) \/ InitWith(EnvBacklog)

NextBusy == Awake \/ RelayStep \/ Network \/ Backend

SpecBusy == InitBusy /\ [][NextBusy]_vars

\* The busy network with FloodPackets packets in every gather: message_seq
\* passes 65535 within MaxTimeFlood seconds.
EnvFlood ==
    [EnvBusy EXCEPT !.ap_down = 8..(MaxTimeFlood + 1),
                    !.gather_packets = {FloodPackets}, !.max_time = MaxTimeFlood]

InitFlood == InitWith(EnvFlood)

SpecFlood == InitFlood /\ [][NextBusy]_vars

\* Two nodes, a frame every 61 s, a rediscovery after every cycle and a full one
\* after every partial one; the same with one address listed twice, and with
\* the frameIntervalS key left out.
Doc78 == config_doc(FALSE, 1, 1, 61, <<7, 8>>)
Doc77 == config_doc(FALSE, 1, 1, 61, <<7, 7>>)
DocNoInterval == without(Doc78, "frameIntervalS")

\* The gateway with a backend that serves any of the three documents at each
\* pull, a network protocol whose discovery may raise, an access point that is
\* joined at once and kept, and a loop whose every pause reaches the next second.
EnvReconf ==
    [EnvSpec EXCEPT !.docs = {Doc78, Doc77, DocNoInterval}, !.http_fail = {},
                    !.link = {TRUE}, !.brief = {1}, !.discovery_s = {1}, !.gather_s = {1}, !.gather_packets = {0},
                    !.raises = TRUE, !.max_syncs = 0, !.max_time = MaxTimeReconf]

InitReconf == InitWith(EnvReconf)

NextReconf == Awake \/ Network \/ Failure \/ Backend

SpecReconf == InitReconf /\ [][NextReconf]_vars

\* The command words of lines 903-962, a payload that is none of them, and no
\* payload, each in a unicast and in a broadcast packet.
CommandWords == {"USMRT", "USOTA", "USPNG", "USMOD", "USCALDO"}
AnyPacket ==
    {packet(type, payload) : type \in {PACKETTYPE_UNICAST, PACKETTYPE_BROADCAST},
                             payload \in CommandWords \cup {"data", ""}}

\* The gateway receiving any of these packets, with up to MaxModules installed
\* modules to report; the access point is joined at once and kept, no config
\* is served, so there are no nodes and no frames.
EnvCommands ==
    [EnvSpec EXCEPT !.docs = {}, !.link = {TRUE},
                    !.isr_packets = PacketSeqs(AnyPacket, MaxPackets),
                    !.modules = 0..MaxModules, !.max_time = MaxTimeCommands]

InitCommands == InitWith(EnvCommands)

NextCommands == Awake \/ RelayStep \/ Backend \/ Asleep \/ Nm3Isr

SpecCommands == InitCommands /\ [][NextCommands]_vars

\* The gateway with no WiFi configuration file (load_wifi_config returns
\* None), no nodes and a silent NM3, run until the first RTC alarm has passed.
EnvNoWifiCfg ==
    [EnvSpec EXCEPT !.wifi_cfg = FALSE, !.docs = {}, !.max_syncs = 0,
                    !.max_time = MaxTimeAlarm]

InitNoWifiCfg == InitWith(EnvNoWifiCfg)

NextNoWifiCfg == Awake \/ Asleep

SpecNoWifiCfg == InitNoWifiCfg /\ [][NextNoWifiCfg]_vars

\* The main loop is the one thread of the program and runs whenever it can.
FairNoWifiCfg == SpecNoWifiCfg /\ WF_vars(NextNoWifiCfg)

\* The RTC alarm scheduler on its own: rtc_set_alarm_period_s and
\* rtc_set_next_alarm_time_s called with any argument at any time, the
\* hardware tick running rtc_callback every RtcTickS seconds.
EnvRtc == [EnvSpec EXCEPT !.max_time = MaxTimeRtc]

InitRtc == InitWith(EnvRtc)

\* rtc_set_alarm_period_s(alarm_period_s) (194-204)
RtcSetPeriod ==
    /\ \E alarm_period_s \in 0..MaxPeriodS :
          /\ _rtc_alarm_period_s' = alarm_period_s
          /\ _rtc_next_alarm_time_s' = IF alarm_period_s > 0 THEN now + alarm_period_s ELSE 0
    /\ UNCHANGED <<pc, now, _rtc_callback_flag, _rtc_callback_seconds, rtc_asserts,
                   nm3Vars, wifiVars, queueVars, seqVars, cfgVars, runVars,
                   network_config_is_stale, localVars, http, wlan, env, power,
                   wdt_fed, histVars>>

\* rtc_set_next_alarm_time_s(alarm_time_s_from_now) (186-191)
RtcSetNext ==
    /\ \E alarm_time_s_from_now \in (-1)..MaxAheadS :
          _rtc_next_alarm_time_s' =
              rtc_set_next_alarm_time_s(_rtc_next_alarm_time_s, alarm_time_s_from_now, now)
    /\ UNCHANGED <<pc, now, _rtc_callback_flag, _rtc_callback_seconds, rtc_asserts,
                   _rtc_alarm_period_s,
                   nm3Vars, wifiVars, queueVars, seqVars, cfgVars, runVars,
                   network_config_is_stale, localVars, http, wlan, env, power,
                   wdt_fed, histVars>>

\* One second passes; rtc_callback (210-222) runs if the hardware tick falls
\* on it.
RtcSecond ==
    /\ TimePasses(_rtc_callback_flag, _rtc_next_alarm_time_s, 1)
    /\ UNCHANGED <<pc, nm3Vars, wifiVars, queueVars, seqVars, cfgVars, runVars,
                   network_config_is_stale, localVars, http, wlan, env, power,
                   wdt_fed, histVars>>

NextRtc == RtcSetPeriod \/ RtcSetNext \/ RtcSecond

SpecRtc == InitRtc /\ [][NextRtc]_vars

\* A node list with a frame every 70 s and the NM3 not kept awake: after a
\* frame the RTC alarm is 10 s ahead and the device goes to sleep before it.
DocSleepy == config_doc(FALSE, 2, 1, 70, <<7>>)

EnvSleepy ==
    [EnvSpec EXCEPT !.docs = {DocSleepy}, !.http_fail = {}, !.link = {TRUE},
                    !.max_syncs = 0, !.max_time = MaxTimeSleepy]

\* Both ways into sleep: the NM3 kept awake (no config pulled) and woken by
\* its edge, and the NM3 powered down and the device woken by the RTC alarm.
InitPower == InitWith(EnvSpec) \/ InitWith(EnvSleepy)

SpecPower == InitPower /\ [][Next]_vars

\* The gateway with no WiFi configuration file and no nodes, kept from sleep
\* by an NM3 edge at any second, run until the window after the edge is over.
EnvWindow ==
    [EnvSpec EXCEPT !.wifi_cfg = FALSE, !.docs = {}, !.max_time = MaxTimeWindow]

InitWindow == InitWith(EnvWindow)

NextWindow == Awake \/ RelayStep \/ Asleep \/ Nm3Isr

SpecWindow == InitWindow /\ [][NextWindow]_vars

\* A frame every 2 s for one node whose discovery may fail and whose gather
\* returns up to MaxPackets + 1 packets; the access point is lost in the
\* eighth second, so that what the ticks enqueue stays queued.
DocGather == config_doc(TRUE, 2, 1, 2, <<7>>)

EnvGather ==
    [EnvSpec EXCEPT !.docs = {DocGather}, !.http_fail = {}, !.link = {TRUE},
                    !.ap_down = 8..(MaxTimeGather + 1),
                    !.discovery = BOOLEAN, !.gather_packets = 0..(MaxPackets + 1),
                    !.max_syncs = 0, !.max_time = MaxTimeGather]

InitGather == InitWith(EnvGather)

NextGather == Awake \/ Network \/ Backend

SpecGather == InitGather /\ [][NextGather]_vars

\* The reset word in a unicast and in a broadcast packet, a data packet and
\* the ping word.
ResetPackets ==
    {packet(PACKETTYPE_UNICAST, "USMRT"), packet(PACKETTYPE_BROADCAST, "USMRT"),
     DataPacket, packet(PACKETTYPE_UNICAST, "USPNG")}

\* The gateway without WiFi configuration and without nodes, one NM3 edge
\* that brings up to MaxPackets + 1 of these packets into the modem driver.
EnvResets ==
    [EnvSpec EXCEPT !.wifi_cfg = FALSE, !.docs = {},
                    !.isr_packets = PacketSeqs(ResetPackets, MaxPackets + 1),
                    !.max_time = MaxTimeResets]

InitResets == InitWith(EnvResets)

NextResets == Awake \/ RelayStep \/ Asleep \/ Nm3Isr

SpecResets == InitResets /\ [][NextResets]_vars

\* ---- the relay step line by line
\* mainloop.py 868-874: clear the flag, poll the modem; has_received_packet().
RelayPoll ==
    /\ pc = "relay"
    /\ _nm3_callback_flag' = FALSE
    /\ effects' = {}
    /\ pc' = IF uart_packets # <<>> THEN "copy_seconds" ELSE "frame_test"
    /\ \E d \in Brief : TimePasses(_rtc_callback_flag, _rtc_next_alarm_time_s, d)
    /\ UNCHANGED <<_nm3_callback_seconds, _nm3_callback_millis, _nm3_callback_micros,
                   nm3_syncs, nm3_firings, uart_packets, wifiVars, queueVars, seqVars,
                   cfgVars, runVars, network_config_is_stale, localVars, http, wlan,
                   env, power, wdt_fed, posted, last_post, created, nodes_changed,
                   partial_run>>

\* What a copy of the timestamps leaves alone.
CopyFrame ==
    /\ NoTime
    /\ UNCHANGED <<nm3Vars, wifiVars, queueVars, seqVars, cfgVars, runVars,
                   network_config_is_stale, nm3_startup_time, time_till_next_frame,
                   http, wlan, env, power, wdt_fed, histVars>>

\* mainloop.py 881: message_packet.timestamp = utime.localtime(_nm3_callback_seconds)
CopySeconds ==
    /\ pc = "copy_seconds"
    /\ timestamp' = [timestamp EXCEPT !.seconds = _nm3_callback_seconds]
    /\ pc' = "copy_millis"
    /\ CopyFrame

\* mainloop.py 882: message_packet.timestamp_millis = _nm3_callback_millis
CopyMillis ==
    /\ pc = "copy_millis"
    /\ timestamp' = [timestamp EXCEPT !.millis = _nm3_callback_millis]
    /\ pc' = "copy_micros"
    /\ CopyFrame

\* mainloop.py 883: message_packet.timestamp_micros = _nm3_callback_micros
CopyMicros ==
    /\ pc = "copy_micros"
    /\ timestamp' = [timestamp EXCEPT !.micros = _nm3_callback_micros]
    /\ pc' = "enqueue"
    /\ CopyFrame

\* mainloop.py 885-986 for the packet just stamped, then the loop test of 875.
RelayOne ==
    /\ pc = "enqueue"
    /\ \E modules \in env.modules :
          LET r == relay_packet([queue |-> json_to_send_messages, seq |-> message_seq,
                                 created |-> created.messages, effects |-> effects,
                                 t |-> 0, fed |-> wdt_fed, reset |-> FALSE],
                                Head(uart_packets), modules)
          IN /\ uart_packets' = Tail(uart_packets)
             /\ json_to_send_messages' = r.queue
             /\ message_seq' = r.seq
             /\ created' = [created EXCEPT !.messages = r.created]
             /\ effects' = r.effects
             /\ wdt_fed' = r.fed
             /\ TimePasses(_rtc_callback_flag, _rtc_next_alarm_time_s, r.t)
             /\ pc' = IF r.reset THEN "reset"
                      ELSE IF Tail(uart_packets) # <<>> THEN "copy_seconds"
                      ELSE "frame_test"
    /\ UNCHANGED <<_nm3_callback_flag, _nm3_callback_seconds, _nm3_callback_millis,
                   _nm3_callback_micros, nm3_syncs, nm3_firings, wifiVars,
                   json_to_send_statuses, json_to_send_network_topologies, status_seq,
                   network_topology_seq, cfgVars, runVars, network_config_is_stale,
                   localVars, http, wlan, env, power, posted, last_post,
                   nodes_changed, partial_run>>

RelayLines == RelayPoll \/ CopySeconds \/ CopyMillis \/ CopyMicros \/ RelayOne

\* The gateway without WiFi configuration and without nodes, the NM3 raising
\* its flag line up to MaxNm3Syncs + 1 times at any point of the relay step.
EnvStamp ==
    [EnvSpec EXCEPT !.wifi_cfg = FALSE, !.docs = {}, !.max_syncs = MaxNm3Syncs + 1,
                    !.max_time = MaxTimeStamp]

InitStamp == InitWith(EnvStamp)

NextStamp == Awake \/ RelayLines \/ Nm3Isr

SpecStamp == InitStamp /\ [][NextStamp]_vars

\* The gateway with DocSleepy pulled at the first connection and the access
\* point lost for good after the first frame: every pause of the loop reaches
\* the next second, six associations time out one after the other, and the
\* NM3 raises its flag line up to MaxNm3Syncs times, at any point, without a
\* packet.
EnvNm3Off ==
    [EnvSpec EXCEPT !.docs = {DocSleepy}, !.http_fail = {}, !.link = {TRUE},
                    !.brief = {1}, !.discovery_s = {1}, !.gather_s = {1},
                    !.gather_packets = {0}, !.isr_packets = {<<>>},
                    !.ap_down = 13..(MaxTimeNm3Off + 1),
                    !.max_time = MaxTimeNm3Off]

InitNm3Off == InitWith(EnvNm3Off)

SpecNm3Off == InitNm3Off /\ [][Next]_vars

\* The same surroundings with a silent NM3, run until the hourly RTC alarm
\* has ended the sleep that follows the sixth failed association.
EnvLate ==
    [EnvNm3Off EXCEPT !.max_syncs = 0, !.ap_down = 13..(MaxTimeLate + 1),
                      !.max_time = MaxTimeLate]

InitLate == InitWith(EnvLate)

NextLate == Awake \/ Network \/ Backend \/ Asleep

SpecLate == InitLate /\ [][NextLate]_vars

\* A frame every second for one node, a rediscovery at every other frame, a
\* full one after each partial one.
DocRetry == config_doc(TRUE, 1, 1, 1, <<7>>)

\* The surroundings of SpecGather with DocRetry served.
EnvRetry ==
    [EnvGather EXCEPT !.docs = {DocRetry}, !.gather_packets = {0},
                      !.ap_down = 8..(MaxTimeRetry + 1), !.max_time = MaxTimeRetry]

InitRetry == InitWith(EnvRetry)

SpecRetry == InitRetry /\ [][NextGather]_vars

\* The gateway with a backend that may take MaxHttpS seconds over a request.
EnvSlowHttp ==
    [EnvSpec EXCEPT !.http_s = {0, MaxHttpS}, !.http_status = {200, 500}, !.max_syncs = 0,
                    !.max_time = MaxTimeSlow]

InitSlowHttp == InitWith(EnvSlowHttp)

NextSlowHttp == Awake \/ Network \/ Backend \/ Asleep

SpecSlowHttp == InitSlowHttp /\ [][NextSlowHttp]_vars

\* Both surroundings of the WiFi step: an access point in range, and none.
InitWifi == InitWith(EnvSpec) \/ InitWith(EnvNoAp)

SpecWifi == InitWifi /\ [][Next]_vars

\* ------------------------------------------------------------------- claims
\* The supervisor starts the sleep sequence: line 1311 decided for it.
StartsSleepSequence == pc = "sleep_test" /\ pc' = "spin"

\* C1: whenever the supervisor starts the sleep sequence both flags were clear
\* at the decision, and either the retry budget was exhausted (retry_count > 5)
\* or the message, status and topology queues were all empty, the post-sync
\* window had expired and the node set was empty or the next frame more than
\* 60 s away.
C1_SleepOnlyWhenIdle ==
    [][StartsSleepSequence =>
         /\ ~_rtc_callback_flag /\ ~_nm3_callback_flag
         /\ \/ wifi_connection_retry_count > WifiRetryLimit
            \/ /\ Len(json_to_send_messages) = 0
               /\ Len(json_to_send_statuses) = 0
               /\ Len(json_to_send_network_topologies) = 0
               /\ now > _nm3_callback_seconds + Nm3WindowS
               /\ \/ Len(network_node_addresses) = 0
                  \/ network_next_frame_time_s - now > FrameLeadS]_vars

\* The seqNos of a queue, head first.
seq_nos(q) == [i \in 1..Len(q) |-> q[i].seqNo]

\* An append to the full queue q gave qn: the oldest item went, the others
\* moved up and the new item, numbered seq, is at the tail.
DroppedOldest(q, qn, maxlen, seq) ==
    (Len(q) = maxlen /\ qn # q /\ Len(qn) = maxlen) =>
        /\ \A i \in 1..(maxlen - 1) : qn[i] = q[i + 1]
        /\ qn[maxlen].seqNo = seq

\* C2: the message queue never holds more than 50 items, the status queue 20,
\* the topology queue 40; an append to a full queue removes exactly the oldest
\* item and places the new item at the tail.
C2_QueueCaps ==
    /\ [](/\ Len(json_to_send_messages) <= MessagesMaxLen
          /\ Len(json_to_send_statuses) <= StatusesMaxLen
          /\ Len(json_to_send_network_topologies) <= TopologiesMaxLen)
    /\ [][/\ DroppedOldest(json_to_send_messages, json_to_send_messages',
                           MessagesMaxLen, message_seq)
          /\ DroppedOldest(json_to_send_statuses, json_to_send_statuses',
                           StatusesMaxLen, status_seq)
          /\ DroppedOldest(json_to_send_network_topologies,
                           json_to_send_network_topologies',
                           TopologiesMaxLen, network_topology_seq)]_vars

\* Both the message queue and the topology queue are full and have dropped
\* their oldest items.
C2_Witness ==
    /\ Len(json_to_send_messages) = MessagesMaxLen
    /\ json_to_send_messages[1].seqNo > 0
    /\ json_to_send_messages[MessagesMaxLen].seqNo = message_seq - 1
    /\ Len(json_to_send_network_topologies) = TopologiesMaxLen
    /\ json_to_send_network_topologies[1].seqNo > 0

\* The seqNos of one kind on their way out in this WiFi step, in the order of
\* their posting: those handed to the endpoint, the item taken from the queue
\* and not yet posted, those still queued.
Outbound(kind) ==
    posted[kind]
    \o (IF pc = ShipPc(kind) /\ http.item # NoItem /\ http.retry_count = 0
        THEN <<http.item.seqNo>> ELSE <<>>)
    \o seq_nos(QueueOf(kind))

SeqOf(kind) ==
    CASE kind = "messages" -> message_seq
      [] kind = "statuses" -> status_seq
      [] kind = "topologies" -> network_topology_seq

Consecutive(s) == \A i \in 1..(Len(s) - 1) : s[i + 1] = s[i] + 1

\* The shipper has just left the loop over the queue of this kind.
ShippedAll(kind) ==
    /\ wifi_branch = "connected"
    /\ pc = AfterShipPc(kind)

\* C3: the shipper posts the items of each queue in the order they were
\* enqueued: what has been posted and what is still to be posted always form
\* one run of seqNos rising by one, so after more than 50 messages were
\* enqueued without WiFi the posts of one WiFi step are the newest (at most 50)
\* messages, oldest first, up to the last one created.
C3_FifoShipping ==
    \A kind \in Kinds :
        /\ Consecutive(Outbound(kind))
        /\ Len(QueueOf(kind)) > 0 =>
               QueueOf(kind)[Len(QueueOf(kind))].seqNo = SeqOf(kind) - 1
        /\ (ShippedAll(kind) /\ Len(posted[kind]) > 0) =>
               posted[kind][Len(posted[kind])] = SeqOf(kind) - 1
        /\ Len(posted.messages) <= MessagesMaxLen

\* More than 50 messages were enqueued without WiFi; the shipper has posted
\* 50 of them.
C3_Witness ==
    /\ pc = "ship_statuses"
    /\ wifi_branch = "connected"
    /\ message_seq > MessagesMaxLen
    /\ Len(posted.messages) = MessagesMaxLen
    /\ posted.messages[1] = message_seq - MessagesMaxLen

\* C4: for every interleaving of the RTC interrupt with the supervisor each
\* assertion of the flag is observed at most once: the status records ever
\* created (status_seq, which has not wrapped) never outnumber the assertions
\* of rtc_callback plus the one forced at startup.
C4_OneStatusPerAssertion == status_seq <= rtc_asserts + 1

\* The interrupt has asserted the flag and the supervisor has observed it.
C4_Witness ==
    /\ rtc_asserts >= 1
    /\ status_seq = rtc_asserts + 1
    /\ ~_rtc_callback_flag

\* C5: once the sleep decision has been taken the flags are re-examined after
\* the power-down (the test of the sleep loop); lightsleep is entered from that
\* test only, and with a flag set there the supervisor goes on to the wake-up
\* restoration, which switches the 3V3 rail and the Tx driver back on.
C5_DoubleCheck ==
    [][/\ (pc' = "lightsleep" /\ pc # "lightsleep") =>
             (pc = "sleep_loop" /\ ~_rtc_callback_flag /\ ~_nm3_callback_flag)
       /\ (pc = "sleep_loop" /\ pc' # pc
             /\ (_rtc_callback_flag \/ _nm3_callback_flag)) => pc' = "wake"
       /\ pc = "double_check" => pc' \in {"double_check", "power_down", "sleep_loop"}
       /\ pc = "power_down" => pc' \in {"power_down", "sleep_loop"}
       /\ (pc = "wake" /\ pc' # pc) =>
             (pc' = "top" /\ power'.en_3v3 /\ power'.tx)]_vars

\* The peripherals were powered down, a flag was found set at the test of the
\* sleep loop, and the restoration is about to run.
C5_Witness ==
    /\ pc = "wake"
    /\ ~power.en_3v3 /\ ~power.tx
    /\ _nm3_callback_flag

Connecting == _wifi_current_transition = _wifi_transition_connecting

\* The WiFi step runs its timeout branch.
TimesOut ==
    /\ wlan' = "off"
    /\ wifi_disconnecting_start_time' = now
    /\ _wifi_current_transition' = _wifi_transition_disconnecting

\* C6: the WiFi state is not left in Connecting for more than 30 s: while it
\* is Connecting the WiFi step is evaluated in every iteration (its gate is
\* open), and the first evaluation more than 30 s after the start without an
\* association deactivates the interface, records the disconnect time and
\* moves to Disconnecting, so no WiFi step leaves a Connecting older than 30 s.
C6_ConnectingTimesOut ==
    /\ [](Connecting => WifiGate)
    /\ []((pc = "sleep_test" /\ Connecting) =>
             now <= wifi_connecting_start_time + WifiTimeoutS)
    /\ [][(/\ pc = "wifi_test" /\ pc' # pc
           /\ Connecting
           /\ now > wifi_connecting_start_time + WifiTimeoutS) =>
             (wifi_branch' = "connected" \/ TimesOut)]_vars

\* A Connecting has just timed out, 31 s after its start.
C6_Witness ==
    /\ pc = "sleep_test"
    /\ wifi_branch = "timeout"
    /\ now = wifi_connecting_start_time + WifiTimeoutS + 1
    /\ wifi_disconnecting_start_time = now
    /\ wlan = "off"
    /\ _wifi_current_transition = _wifi_transition_disconnecting

\* The WiFi step calls start_connect_to_wifi.
AssociationStarts ==
    /\ pc = "wifi_test" /\ pc' # pc
    /\ wifi_branch' \in {"start", "start_failed"}

\* C7: every start of a WiFi association happens at least 2 s after the most
\* recent disconnect, by a timeout or by the sleep sequence: each of the two
\* records its time in wifi_disconnecting_start_time, nothing else writes it,
\* and a start is at least 2 s later.
C7_Cooldown ==
    [][/\ (pc = "wifi_test" /\ wifi_branch' = "timeout") => TimesOut
       /\ StartsSleepSequence =>
             (wlan' = "off" /\ wifi_disconnecting_start_time' = now)
       /\ (wlan # "off" /\ wlan' = "off") => wifi_disconnecting_start_time' = now
       /\ wifi_disconnecting_start_time' # wifi_disconnecting_start_time =>
             wlan' = "off"
       /\ AssociationStarts =>
             now - wifi_disconnecting_start_time >= WifiCooldownS]_vars

\* An association has just been started as soon as the cooldown after a
\* timeout allows it.
C7_Witness ==
    /\ pc = "sleep_test"
    /\ wifi_branch = "start"
    /\ wifi_failures >= 1
    /\ now = wifi_disconnecting_start_time + WifiCooldownS + 1

\* C8: once retry_count exceeds 5 the supervisor starts no further WiFi
\* association (which would count one more) until sleep has been entered, and
\* retry_count never exceeds 6.
C8_RetryBudget ==
    /\ [](wifi_connection_retry_count <= WifiRetryLimit + 1)
    /\ [][wifi_connection_retry_count > WifiRetryLimit =>
             ~(wifi_connection_retry_count' > wifi_connection_retry_count)]_vars

\* C9: with items queued, no association and no flag raised, the device goes
\* to sleep after 6 failed connection attempts, also when an attempt fails to
\* start at all: the supervisor never begins another iteration with six
\* failed attempts behind it.
C9_SleepsAfterSixFailures == (pc = "top") => (wifi_failures <= WifiRetryLimit)

\* C10: no path through one iteration body runs for more than 30 s between
\* two watchdog feeds.
C10_WatchdogFed == now - wdt_fed <= WdtTimeoutS

\* ---- C11
\* A step of the shipper that makes one POST.
Posts == pc \in {ShipPc(kind) : kind \in Kinds} /\ http.item # NoItem /\ http' # http

\* C11: for every item taken from a queue the shipper makes at most 4 POSTs,
\* the retry field of each carrying the zero-based index of the attempt; the
\* item is given up at the first status in 200..299 and after the 4th failure,
\* and kept for another attempt otherwise; when the ship step has finished all
\* three queues are empty.
C11_PostAttempts ==
    /\ [](last_post # NoPost =>
             /\ last_post.attempt \in 1..HttpAttempts
             /\ last_post.retry = last_post.attempt - 1)
    /\ [][Posts =>
             /\ last_post'.seqNo = http.item.seqNo
             /\ last_post'.attempt = http.retry_count + 1
             /\ IF (200 <= last_post'.status /\ last_post'.status < 300)
                   \/ last_post'.attempt = 4
                THEN http'.item = NoItem
                ELSE /\ http'.item.seqNo = http.item.seqNo
                     /\ http'.retry_count = last_post'.attempt]_vars
    /\ []((pc = "sleep_test" /\ wifi_branch = "connected") =>
             /\ json_to_send_messages = <<>>
             /\ json_to_send_statuses = <<>>
             /\ json_to_send_network_topologies = <<>>)

\* The ship step has finished, its last item discarded after a 4th failure that
\* followed a status just outside 200..299.
C11_Witness ==
    /\ pc = "sleep_test" /\ wifi_branch = "connected"
    /\ last_post.attempt = HttpAttempts
    /\ last_post.status \in {199, 300}
    /\ Len(posted.messages) > 1

\* ---- C12
\* The seqNo of the item that is i-th in a queue of n items, when made items
\* have been created for the queue since boot.
SeqNoAt(made, n, i) == (made - n + i - 1) % 65536

\* C12: in each queue the seqNo of successively created items starts at 0 at
\* boot and rises by one modulo 65536 per created item: the counter equals
\* the number of items created modulo 65536 and the queue holds the newest
\* items, each with the seqNo of its place in the order of creation; the
\* retransmissions of an item carry the same seqNo and differ in retry.
C12_SeqNoModulo ==
    /\ [](\A kind \in Kinds :
             /\ SeqOf(kind) = created[kind] % 65536
             /\ \A i \in 1..Len(QueueOf(kind)) :
                    /\ QueueOf(kind)[i].seqNo = SeqNoAt(created[kind], Len(QueueOf(kind)), i)
                    /\ QueueOf(kind)[i].retry = 0)
    /\ [][(Posts /\ http.retry_count > 0) =>
             /\ last_post'.kind = last_post.kind
             /\ last_post'.seqNo = last_post.seqNo
             /\ last_post'.retry = last_post.retry + 1]_vars

\* More than 65536 messages have been created: the counter has wrapped and the
\* queue holds items from both sides of the wrap.
C12_Witness ==
    /\ created.messages > 65536
    /\ Len(json_to_send_messages) > 1
    /\ json_to_send_messages[1].seqNo > json_to_send_messages[Len(json_to_send_messages)].seqNo

\* ---- C13
\* The frame block runs its rediscovery decision (993-1013).
FrameTick == pc = "configure" /\ pc' # pc

\* C13: after a successful config pull whose node addresses differ as a set
\* from the current ones, the next frame-scheduler tick performs a full
\* rediscovery.
C13_FullRediscoveryAfterChange ==
    [][(FrameTick /\ nodes_changed) => do_full_request]_vars

\* ---- C14
\* C14: after a frame tick in which a full rediscovery ran and succeeded, the
\* partials counter is 0.
C14_FullResetsPartials ==
    [][(FrameTick /\ do_full_request /\ pc' = "gather" /\ network_is_configured')
          => network_partials_counter' = 0]_vars

\* ---- C15
\* The config pull has fetched a document and is about to apply it.
ApplyDue ==
    /\ pc = "cfg_get"
    /\ ~(~http.success_flag /\ http.retry_count < HttpAttempts)
    /\ http.doc # NoDoc

\* C15: applying the pulled document a second time leaves the run state of the
\* network (and the configuration) exactly as the first application left it:
\* the application writes the rediscovery flag and the stale flag only, and
\* writes them to the same values again.
C15_ApplyTwice ==
    /\ [](ApplyDue =>
             LET once == apply_network_config(network_config, http.doc)
             IN apply_network_config(once, http.doc) = once)
    /\ [][(ApplyDue /\ pc' # pc) =>
             UNCHANGED <<network_cycle_counter, network_partials_counter,
                         network_next_frame_time_s, network_is_configured,
                         network_do_partial_configuration>>]_vars

\* A document with a changed node list is about to be applied while no full
\* rediscovery is pending.
C15_Witness ==
    /\ ApplyDue
    /\ keys_read(http.doc) = Len(ConfigKeys)
    /\ network_node_addresses # <<>>
    /\ node_addresses_changed(http.doc.nodeAddresses, network_node_addresses)
    /\ ~network_do_full_configuration

\* ---- C16
\* C16: after any config pull either every configuration field holds the
\* value of the pulled document or every field holds its previous value.
C16_AtomicReplace ==
    [][(pc = "cfg_get" /\ pc' # pc) =>
          \/ UNCHANGED cfgVars
          \/ /\ DOMAIN http.doc = DOMAIN NoDoc
             /\ network_nm3_gateway_stay_awake' = http.doc.nm3GatewayStayAwake
             /\ network_cycle_limit' = http.doc.cycleLimit
             /\ network_partials_per_full_discovery' = http.doc.partialsPerFullDiscovery
             /\ network_frame_interval_s' = http.doc.frameIntervalS
             /\ network_node_addresses' = http.doc.nodeAddresses]_vars

\* ---- C18
\* A step of the supervisor that ends in an exception.
Raises ==
    \/ pc = "cfg_get" /\ pc' \notin {"cfg_get", "ship_messages"}
    \/ pc = "configure" /\ pc' \notin {"configure", "gather"}

\* C18: run_mainloop never returns: an exception raised inside an iteration is
\* caught at the loop boundary, the loop re-enters from the top with the queues,
\* the counters and the WiFi state as they were, and feeds the watchdog first.
C18_ExceptionsCaught ==
    /\ [](pc # "halted")
    /\ [][Raises => (pc' = "top" /\ UNCHANGED <<queueVars, seqVars, wifiVars, wlan,
                                                 network_cycle_counter>>)]_vars
    /\ [][(pc = "top" /\ pc' # pc) => wdt_fed' = now]_vars

\* The loop is back at its top after a KeyError of the config pull, the status
\* of this iteration still queued.
C18_Witness ==
    /\ pc = "top"
    /\ wifi_branch = "connected"
    /\ network_config_is_stale
    /\ http.doc = DocNoInterval
    /\ Len(json_to_send_statuses) > 0

\* ---- C17
\* The command side effects.
SideEffects == {"reset", "ota_marker", "alive", "modules", "calibration"}

\* The relay step runs over the packets received.
Relays == pc = "relay" /\ pc' # pc

\* None of the packets received is unicast.
BroadcastsOnly ==
    \A i \in 1..Len(uart_packets) : uart_packets[i].packet_type # PACKETTYPE_UNICAST

\* C17: a packet received on the relay path whose type is not unicast causes
\* none of the command side effects, whatever its payload, and is still
\* enqueued as a message: every side effect comes from a unicast packet, a
\* relay step over non-unicast packets has no side effect and goes on to the
\* frame block, and a relay step that goes on has enqueued every packet.
C17_UnicastCommandsOnly ==
    /\ [](\A e \in effects : e.effect \in SideEffects => e.packet_type = PACKETTYPE_UNICAST)
    /\ [][Relays =>
             /\ BroadcastsOnly =>
                    /\ pc' = "frame_test"
                    /\ \A e \in effects' : e.effect = "enqueue"
             /\ pc' = "frame_test" =>
                    /\ \A i \in 1..Len(uart_packets) :
                           effect(uart_packets[i], "enqueue") \in effects'
                    /\ created'.messages = created.messages + Len(uart_packets)
                    /\ Len(json_to_send_messages') =
                           IF Len(json_to_send_messages) + Len(uart_packets) > MessagesMaxLen
                           THEN MessagesMaxLen
                           ELSE Len(json_to_send_messages) + Len(uart_packets)]_vars

\* The relay step has enqueued a broadcast packet that carries the reset word
\* and has gone on to the frame block.
C17_Witness ==
    /\ pc = "frame_test"
    /\ effects = {effect(packet(PACKETTYPE_BROADCAST, "USMRT"), "enqueue")}
    /\ Len(json_to_send_messages) > 0

\* ---- C19
\* The WiFi step takes the branch that would start an association.
WouldConnect ==
    /\ pc = "wifi_test" /\ pc' # pc
    /\ WifiGate
    /\ MayStartConnect(FALSE)

\* The device leaves the sleep loop.
Wakes == pc = "sleep_loop" /\ pc' = "wake"

\* C19: with the WiFi configuration file absent no association is ever
\* started and no HTTP request is ever issued; the WiFi step that would start
\* one empties the three queues and clears config_stale instead; with no
\* nodes the device then reaches light sleep, and it wakes on the RTC alarm
\* and not before.
C19_NoWifiConfig ==
    /\ [](/\ wlan = "off"
          /\ _wifi_current_transition # _wifi_transition_connecting
          /\ wifi_connection_retry_count = 0)
    /\ [](/\ pc \notin {"cfg_get"} \cup {ShipPc(kind) : kind \in Kinds}
          /\ http = NoHttp
          /\ last_post = NoPost)
    /\ [][WouldConnect =>
             /\ Len(json_to_send_messages') = 0
             /\ Len(json_to_send_statuses') = 0
             /\ Len(json_to_send_network_topologies') = 0
             /\ ~network_config_is_stale'
             /\ pc' = "sleep_test"]_vars
    /\ [][(pc = "sleep_test" /\ wifi_branch = "no_config") => pc' = "spin"]_vars
    /\ <>(pc = "lightsleep")
    /\ [][Wakes => (_rtc_callback_flag /\ now >= BootWallS + AlarmPeriodS)]_vars
    /\ <>(pc = "wake")

\* The device has slept since the WiFi step dropped the status of the boot
\* and the RTC alarm has woken it.
C19_Witness ==
    /\ pc = "wake"
    /\ wifi_branch = "no_config"
    /\ created.statuses = 1
    /\ Len(json_to_send_statuses) = 0
    /\ now >= BootWallS + AlarmPeriodS

\* ---- C20
\* seconds clamped to 1..AlarmMaxS
clamped(seconds) ==
    IF seconds < 1 THEN 1 ELSE IF seconds > AlarmMaxS THEN AlarmMaxS ELSE seconds

\* The gather of a frame calls rtc_set_next_alarm_time_s, and no RTC
\* interrupt runs between the call and the end of the gather.
SetsNextAlarm ==
    /\ pc = "gather" /\ pc' # pc
    /\ network_is_configured
    /\ \A t \in (now + 1)..now' : ~IsRtcTick(t)

\* C20: rtc_set_next_alarm_time_s clamps its argument to 1..7200: for every
\* argument, afterwards the next alarm time is now + min(max(seconds, 1), 7200).
C20_AlarmClamped ==
    [][SetsNextAlarm =>
         _rtc_next_alarm_time_s' =
             now + clamped(network_next_frame_time_s' - now - FrameLeadS)]_vars

\* ---- C21
\* rtc_callback has just run: a second has passed and the hardware tick fell
\* on it.
IsrRan == now' = now + 1 /\ IsRtcTick(now')

\* C21: immediately after every execution of the RTC ISR the next alarm time
\* is either 0 or strictly greater than the current wall time, for every
\* sequence of rtc_set_alarm_period_s, rtc_set_next_alarm_time_s and ticks.
C21_AlarmAhead ==
    [][IsrRan => (_rtc_next_alarm_time_s' = 0 \/ _rtc_next_alarm_time_s' > now')]_vars

\* ---- C22
\* The supervisor is in its RTC, relay, frame or WiFi step.
InStep ==
    pc \in {"rtc_test", "rtc_clear", "nm3_settle", "relay_test", "relay", "frame_test",
            "configure", "gather", "wifi_test", "cfg_get"}
           \cup {ShipPc(kind) : kind \in Kinds}

\* C22: whenever the supervisor executes the RTC, relay, frame or WiFi steps
\* the 3V3 rail is on and the Tx driver enabled; both are switched off only in
\* the power-down of the sleep sequence and are back on when the wake-up hands
\* over to the top of the loop; the NM3 rail is switched off only in that
\* power-down and only when network_nm3_gateway_stay_awake is false.
C22_PoweredWhileAwake ==
    /\ [](InStep => (power.en_3v3 /\ power.tx))
    /\ [][((power.en_3v3 /\ ~power'.en_3v3) \/ (power.tx /\ ~power'.tx)) =>
             (pc = "power_down" /\ pc' = "sleep_loop")]_vars
    /\ [][(pc = "wake" /\ pc' # pc) => (pc' = "top" /\ power'.en_3v3 /\ power'.tx)]_vars
    /\ [][(power.nm3 /\ ~power'.nm3) =>
             (pc = "power_down" /\ ~network_nm3_gateway_stay_awake)]_vars

\* The device has powered down, the NM3 with it, the RTC alarm has woken it,
\* and the RTC step is about to run with the rail and the Tx driver back on.
C22_Witness ==
    /\ pc = "rtc_test"
    /\ power.en_3v3 /\ power.tx /\ ~power.nm3
    /\ _rtc_callback_flag

\* ---- C23
\* C23: the relay step (modem poll) runs in an iteration exactly when the NM3
\* flag is set or less than 30 s have passed since the last NM3 edge; at
\* exactly 30 s after the edge with the flag clear it does not run.
C23_RelayWindow ==
    [][(pc = "relay_test" /\ pc' # pc) =>
          /\ pc' = "relay" <=>
                (_nm3_callback_flag \/ now - _nm3_callback_seconds < Nm3WindowS)
          /\ (~_nm3_callback_flag /\ now - _nm3_callback_seconds = Nm3WindowS) =>
                pc' = "frame_test"]_vars

\* Exactly 30 s after the one NM3 edge, the flag clear, the iteration has gone
\* past the relay step without polling.
C23_Witness ==
    /\ pc = "frame_test"
    /\ nm3_syncs = 1
    /\ ~_nm3_callback_flag
    /\ now = _nm3_callback_seconds + Nm3WindowS

\* ---- C24
\* The WiFi step is evaluated exactly 30 s after the start of a Connecting
\* and observes no association.
EvaluatedAtTimeout ==
    /\ pc = "wifi_test" /\ pc' # pc
    /\ Connecting
    /\ now = wifi_connecting_start_time + WifiTimeoutS
    /\ wifi_branch' # "connected"

\* C24: if the WiFi state is Connecting, no association has been observed and
\* exactly 30 s have elapsed since the start when the WiFi step is evaluated,
\* that iteration moves the state to Disconnecting.
C24_TimeoutAtThirty ==
    [][EvaluatedAtTimeout =>
          _wifi_current_transition' = _wifi_transition_disconnecting]_vars

\* ---- C25
\* C25: after a Connecting timeout the WiFi state passes Connecting,
\* Disconnecting, Static: Disconnecting is left for Static only, and a new
\* association is only ever started from Static.
C25_ViaStatic ==
    /\ [][_wifi_current_transition = _wifi_transition_disconnecting =>
             _wifi_current_transition' \in {_wifi_transition_disconnecting,
                                            _wifi_transition_static}]_vars
    /\ [][AssociationStarts => _wifi_current_transition = _wifi_transition_static]_vars

\* ---- C26
\* C26: after every gather, for every configured frame interval, the RTC alarm
\* is set to fire 60 s before the new next frame time.
C26_AlarmBeforeFrame ==
    [][SetsNextAlarm =>
          _rtc_next_alarm_time_s' = network_next_frame_time_s' - FrameLeadS]_vars

\* ---- C27
\* The WiFi step finds the interface connected.
FindsConnected == pc = "wifi_test" /\ wifi_branch' = "connected"

\* The config pull of the WiFi step is over.
PullEnds == pc = "cfg_get" /\ pc' # pc

\* C27: whenever WiFi is connected and the network config is stale, the WiFi
\* step issues the GET of the network config (at most 4 attempts) before it
\* ships any queue, also when the three queues are empty, and the config is
\* not stale afterwards whether or not the GET succeeded.
C27_PullWhenStale ==
    /\ []((pc = "wifi_test" /\ network_config_is_stale) => WifiGate)
    /\ [][(FindsConnected /\ network_config_is_stale) => pc' = "cfg_get"]_vars
    /\ [](pc = "cfg_get" => http.retry_count <= HttpAttempts)
    /\ [][PullEnds => ~network_config_is_stale']_vars

\* ---- C28
\* The iteration observes the RTC flag set.
ObservesRtc == pc = "rtc_test" /\ pc' # pc /\ _rtc_callback_flag

\* The RTC branch of the iteration runs.
RunsRtcBranch == pc = "rtc_clear" /\ pc' # pc

\* C28: every iteration that observes the RTC flag set, the first one after
\* start-up included, clears the flag, powers on the NM3, enqueues exactly
\* one status record and marks the network config stale.
C28_RtcBranch ==
    /\ [][ObservesRtc => pc' = "rtc_clear"]_vars
    /\ [][RunsRtcBranch =>
             /\ ~_rtc_callback_flag'
             /\ power'.nm3
             /\ created'.statuses = created.statuses + 1
             /\ json_to_send_statuses' =
                    deque_append(json_to_send_statuses, new_item(status_seq),
                                 StatusesMaxLen)
             /\ network_config_is_stale'
             /\ pc' = "nm3_settle"]_vars
    /\ [][created'.statuses # created.statuses => RunsRtcBranch]_vars

\* The RTC alarm has woken the device with the NM3 powered down; the branch
\* has powered it on and enqueued the second status of the run.
C28_Witness ==
    /\ pc = "nm3_settle"
    /\ now = nm3_startup_time
    /\ ~network_nm3_gateway_stay_awake
    /\ _wifi_current_transition = _wifi_transition_disconnecting
    /\ now > wifi_disconnecting_start_time + SpinS
    /\ created.statuses = 2
    /\ power.nm3
    /\ network_config_is_stale
    /\ ~_rtc_callback_flag

\* ---- C29
\* The frame tick finds the cycle limit reached.
CycleLimitReached == FrameTick /\ network_cycle_counter >= network_cycle_limit

\* C29: at a frame tick with the cycle counter at or past the cycle limit a
\* full rediscovery is performed if the partials counter has reached
\* partials_per_full_discovery and a partial one otherwise; with an unchanged
\* configuration and successful discoveries a full rediscovery follows exactly
\* partials_per_full_discovery consecutive partial ones.
C29_RediscoveryCadence ==
    /\ [][CycleLimitReached =>
             IF network_partials_counter >= network_partials_per_full_discovery
             THEN do_full_request
             ELSE do_partial_request /\ ~do_full_request]_vars
    /\ [][(FrameTick /\ do_full_request /\ partial_run # NoRun) =>
             partial_run = network_partials_per_full_discovery]_vars

\* ---- C30
\* The frame block of a tick runs its gather and topology part (1026-1089).
GatherStep == pc = "gather" /\ pc' # pc

\* The last item of a queue.
Last(q) == q[Len(q)]

\* The packets the gather of this step has returned.
Returned == created'.messages - created.messages

TickWakes == pc = "asleep" /\ pc' = "sleep_loop" /\ now' > now

\* C31: the supervisor leaves the sleep loop only with _rtc_callback_flag or
\* _nm3_callback_flag set; an RTC hardware tick that ends a lightsleep while
\* the alarm is not due (_rtc_next_alarm_time_s is 0 or later than the tick)
\* does not set _rtc_callback_flag, and from the test of the sleep loop with
\* both flags clear the supervisor feeds the watchdog and goes back into
\* lightsleep, without running the iteration body.
C31_NoSpuriousWake ==
    /\ [][Wakes => (_rtc_callback_flag \/ _nm3_callback_flag)]_vars
    /\ [][(TickWakes /\ ~_rtc_callback_flag
             /\ (_rtc_next_alarm_time_s = 0 \/ _rtc_next_alarm_time_s > now')) =>
             ~_rtc_callback_flag']_vars
    /\ [][(pc = "sleep_loop" /\ pc' # pc /\ SleepLoopGate) =>
             (pc' = "lightsleep" /\ wdt_fed' = now)]_vars
    /\ [][(pc \in {"sleep_loop", "lightsleep", "asleep"} /\ pc' # pc) =>
             pc' \in {"sleep_loop", "lightsleep", "asleep", "wake"}]_vars

\* A hardware tick has ended a lightsleep of the powered-down device with the
\* alarm not due: both flags are clear at the test of the sleep loop.
C31_Witness ==
    /\ pc = "sleep_loop"
    /\ ~_rtc_callback_flag /\ ~_nm3_callback_flag
    /\ ~power.en_3v3
    /\ IsRtcTick(now)
    /\ now > wifi_disconnecting_start_time + SpinS
    /\ _rtc_next_alarm_time_s > now

\* ---- C32
\* The places of the unicast packets with payload USMRT among pkts.
ResetsAt(pkts) ==
    {i \in 1..Len(pkts) : /\ pkts[i].packet_type = PACKETTYPE_UNICAST
                          /\ pkts[i].packet_payload = "USMRT"}

\* The packets of pkts up to and including the first reset command.
UpToReset(pkts) ==
    IF ResetsAt(pkts) = {} THEN Len(pkts)
    ELSE CHOOSE i \in ResetsAt(pkts) : \A j \in ResetsAt(pkts) : i <= j

\* C32: every packet received on the relay path is enqueued as a message
\* before any command is obeyed for it: whatever the relay step did for a
\* packet, it enqueued that packet; a unicast packet with payload USMRT gives
\* one message for that packet and then the device reset, and no later packet
\* of the same poll is processed (the messages created are those of the
\* packets up to the reset command, the last of them the reset packet's).
C32_EnqueueThenReset ==
    [][Relays =>
         LET n == UpToReset(uart_packets)
         IN /\ \A e \in effects' :
                  effect(packet(e.packet_type, e.packet_payload), "enqueue") \in effects'
            /\ created'.messages = created.messages + n
            /\ Len(json_to_send_messages') = Len(json_to_send_messages) + n
            /\ \A i \in 1..n : effect(uart_packets[i], "enqueue") \in effects'
            /\ \A e \in effects' : \E i \in 1..n :
                  /\ e.packet_type = uart_packets[i].packet_type
                  /\ e.packet_payload = uart_packets[i].packet_payload
            /\ IF ResetsAt(uart_packets) = {}
               THEN pc' = "frame_test"
               ELSE /\ pc' = "reset"
                    /\ effect(uart_packets[n], "reset") \in effects'
                    /\ json_to_send_messages'[Len(json_to_send_messages')].seqNo =
                           (message_seq + n - 1) % SeqLimit]_vars

\* A poll brought a data packet and then the reset command: both are enqueued
\* and the device has reset.
C32_Witness ==
    /\ pc = "reset"
    /\ Len(json_to_send_messages) = 2
    /\ effects = {effect(DataPacket, "enqueue"),
                  effect(packet(PACKETTYPE_UNICAST, "USMRT"), "enqueue"),
                  effect(packet(PACKETTYPE_UNICAST, "USMRT"), "reset")}

\* ---- C33
\* C33: the three timestamps stamped on a relayed packet (wall seconds,
\* milliseconds, microseconds) all come from one and the same run of
\* nm3_callback, however the interrupt interleaves with the relay step.
C33_StampOfOneFiring ==
    pc = "enqueue" =>
        \E n \in 1..Len(nm3_firings) : timestamp = hw_timestamp(nm3_firings[n], n, n)

\* ---- C34
\* C34: no wake-up is lost: however the interrupts interleave with the sleep
\* sequence, machine.lightsleep() is never entered (the CPU halted) while
\* _rtc_callback_flag or _nm3_callback_flag is already set.
C34_NoSleepWithFlagSet ==
    [][(pc = "lightsleep" /\ pc' = "asleep") =>
          (~_rtc_callback_flag /\ ~_nm3_callback_flag)]_vars

\* ---- C35
\* C35: a network frame (discovery or gather) is never executed while the NM3
\* is powered down: whenever the frame gate has fired, the NM3 has been
\* powered on since the last power-down of the sleep sequence.
C35_Nm3OnAtFrame == pc \in {"configure", "gather"} => power.nm3

\* ---- C36
\* C36: the time_till_next_frame handed to gather_sensor_data is strictly
\* positive at every gather, also when the frame tick runs late and no
\* rediscovery has reset network_next_frame_time_s.
C36_PositiveTimeTillNextFrame ==
    [][(GatherStep /\ network_is_configured) => time_till_next_frame' > 0]_vars

\* ---- C37
\* The discovery of this frame tick has failed.
DiscoveryFails ==
    /\ pc = "configure" /\ pc' = "gather"
    /\ do_full_request \/ do_partial_request
    /\ ~network_is_configured'

\* C37: when discovery fails at a frame tick, network_is_configured is false
\* and no gather runs, network_cycle_counter, network_partials_counter and
\* network_next_frame_time_s are unchanged and the rediscovery request is
\* kept, so the frame gate fires again in the next iteration; the device does
\* not start the sleep sequence unless the WiFi retry budget is exhausted.
C37_FailedDiscoveryRetried ==
    /\ [][DiscoveryFails =>
             /\ network_cycle_counter' = network_cycle_counter
             /\ network_partials_counter' = network_partials_counter
             /\ network_next_frame_time_s' = network_next_frame_time_s
             /\ network_do_full_configuration' = do_full_request
             /\ network_do_partial_configuration' = do_partial_request]_vars
    /\ [][(GatherStep /\ ~network_is_configured) =>
             /\ UNCHANGED <<network_cycle_counter, network_next_frame_time_s,
                            time_till_next_frame, json_to_send_messages>>
             /\ ~Last(json_to_send_network_topologies').data_gathering]_vars
    /\ []((~network_is_configured /\ Len(network_node_addresses) > 0
             /\ (network_do_full_configuration \/ network_do_partial_configuration)) =>
             FrameGate)
    /\ [][(StartsSleepSequence /\ ~network_is_configured
             /\ Len(network_node_addresses) > 0) =>
             wifi_connection_retry_count > WifiRetryLimit]_vars

\* ---- C38
\* C38: with the configuration unchanged and network_cycle_limit >= 1,
\* network_cycle_counter never exceeds network_cycle_limit and a gather runs
\* only with network_cycle_counter < network_cycle_limit; the counter is
\* reset by a successful discovery and counts the gathers since, so at most
\* network_cycle_limit gathers run between two successful discoveries.
C38_CycleLimit ==
    /\ [](network_cycle_limit >= 1 => network_cycle_counter <= network_cycle_limit)
    /\ [][(GatherStep /\ network_is_configured) =>
             /\ network_cycle_counter < network_cycle_limit
             /\ network_cycle_counter' = network_cycle_counter + 1]_vars
    /\ [][network_cycle_counter' # network_cycle_counter =>
             \/ GatherStep /\ network_is_configured
             \/ /\ pc = "configure" /\ network_is_configured'
                /\ network_cycle_counter' = 0]_vars

\* The gathers since the last successful discovery have reached the cycle
\* limit of the pulled configuration and the next frame tick is about to ask
\* for a rediscovery.
C38_Witness ==
    /\ pc = "configure"
    /\ network_cycle_limit = 1
    /\ network_cycle_counter = network_cycle_limit
    /\ network_is_configured
    /\ partial_run = 1

\* ---- C39
\* The supervisor is inside the sleep sequence, after its first step.
InSleepSequence ==
    pc \in {"spin", "double_check", "power_down", "sleep_loop", "lightsleep",
            "asleep", "wake"}

\* C39: the sleep sequence, from the sleep decision to the wake-up
\* restoration (also when entered on retry exhaustion and when the double
\* check cancels the power-down), leaves the three queues, the three sequence
\* counters and the network run state unchanged; its first step sets
\* wifi_connection_retry_count to 0, the WiFi state to Disconnecting and the
\* disconnect time to now and switches the interface off, and after that it
\* changes only the peripheral power state.
C39_SleepFrame ==
    /\ [][(StartsSleepSequence \/ InSleepSequence) =>
             UNCHANGED <<queueVars, seqVars, runVars, cfgVars,
                         network_config_is_stale>>]_vars
    /\ [][StartsSleepSequence =>
             /\ wifi_connection_retry_count' = 0
             /\ _wifi_current_transition' = _wifi_transition_disconnecting
             /\ wifi_disconnecting_start_time' = now
             /\ wlan' = "off"
             /\ UNCHANGED <<wifi_connecting_start_time, power>>]_vars
    /\ [][InSleepSequence =>
             UNCHANGED <<_wifi_current_transition, wifi_connection_retry_count,
                         wifi_connecting_start_time, wifi_disconnecting_start_time,
                         wlan>>]_vars
    /\ [][(InSleepSequence /\ power' # power) => pc \in {"power_down", "wake"}]_vars

\* The sleep entered on retry exhaustion, with statuses and topology records
\* still queued, has powered the peripherals down and is at its wake-up
\* restoration.
C39_Witness ==
    /\ pc = "wake"
    /\ ~power.en_3v3
    /\ Len(json_to_send_statuses) > 0
    /\ Len(json_to_send_network_topologies) > 0
    /\ wifi_connection_retry_count = 0
    /\ _wifi_current_transition = _wifi_transition_disconnecting

\* ---- C40
\* An HTTP request (a GET of the config or a POST of an item) is issued.
HttpRequest == http'.retry_count = http.retry_count + 1

\* C40: whenever the CPU is in light sleep the WiFi interface has been
\* deactivated and the WiFi state is Disconnecting, so the device never sleeps
\* with an association in progress or established; HTTP requests are issued
\* only in an iteration whose WiFi step found the interface connected.
C40_NoSleepWithWifi ==
    /\ [](pc \in {"lightsleep", "asleep"} =>
             /\ wlan = "off"
             /\ _wifi_current_transition = _wifi_transition_disconnecting)
    /\ [](pc \in {"cfg_get"} \cup {ShipPc(kind) : kind \in Kinds} =>
             wifi_branch = "connected")
    /\ [][HttpRequest =>
             /\ wifi_branch = "connected"
             /\ wlan = "active"
             /\ _wifi_current_transition = _wifi_transition_static]_vars

\* The CPU is halted in a sleep decided in the iteration that had just started
\* an association.
C40_Witness ==
    /\ pc = "asleep"
    /\ wlan = "off"
    /\ wifi_branch = "start"
    /\ wifi_connecting_start_time = wifi_disconnecting_start_time
    /\ created.topologies > 0
====
